---- MODULE Spec2Model ----
(***************************************************************************)
(* State-machine model of the back-office application: the record store    *)
(* (clients, transactions, invoices, the invoice-number sequence) and the   *)
(* three dashboard components that read and write it:                       *)
(*   TransactionsTab (src/backend/index.js, lines 85-218),                  *)
(*   InvoicesTab     (src/src/components/dashboard/InvoicesTab.tsx),        *)
(*   ClientsTab      (src/src/components/dashboard/ClientsTab.tsx).         *)
(*                                                                          *)
(* Numbers.  The code computes with JavaScript numbers and never rounds a   *)
(* stored amount.  The model computes with exact rationals [n, d] (d > 0,   *)
(* lowest terms) plus NaN (d = 0), so every stored amount is the exact      *)
(* value of the expression the code evaluates; the last-bit rounding of     *)
(* IEEE-754 doubles is not represented.                                     *)
(*                                                                          *)
(* Strings typed into forms are sequences of one-character strings, so      *)
(* that parseFloat / parseInt / toString are computed, not looked up.       *)
(*                                                                          *)
(* A JSON list column that is null and one that is [] are both <<>>: the    *)
(* writer stores null for an empty list (ClientsTab.tsx:86-87) and every    *)
(* reader applies `|| []` (index.js:248-249, ClientsTab.tsx:129-130).       *)
(* A nullable object (payment_destination) is a sequence of length 0 or 1.  *)
(* A nullable string is the string itself or NULL.                          *)
(***************************************************************************)
EXTENDS Integers, Sequences, FiniteSets, TLC

VARIABLES
    dbClients,        \* record store, table clients: [id -> row]
    dbTransactions,   \* record store, table transactions: sequence of rows, id = position
    dbInvoices,       \* record store, table invoices: sequence of rows, id = position
    invoiceSeq,       \* record store, the counter behind generate_invoice_number
    ttClients,        \* TransactionsTab state `clients`
    ttTransactions,   \* TransactionsTab state `transactions` (ids of the loaded rows)
    ttLoading,        \* TransactionsTab state `loading`
    ttOpen,           \* TransactionsTab state `open`
    ttForm,           \* TransactionsTab state `formData` (client, platform, bank index)
    ttSelPlatforms,   \* TransactionsTab state `selectedClientPlatforms`
    ttSelBanks,       \* TransactionsTab state `selectedClientBankAccounts`
    ttSelCurrency,    \* TransactionsTab state `selectedClientCurrency`
    ttFetches,        \* TransactionsTab: fetchData calls in flight
    ttPending,        \* TransactionsTab: handleSubmit suspended at its await (<<>> or <<call>>)
    ttToast,          \* TransactionsTab: last toast shown
    ctClients,        \* ClientsTab state `clients`
    ctLoading,        \* ClientsTab state `loading`
    ctOpen,           \* ClientsTab state `open`
    ctEditing,        \* ClientsTab state `editingClient`: <<>> (null) or <<id>>
    ctForm,           \* ClientsTab state `formData` (commission text, currency)
    ctBanks,          \* ClientsTab state `bankAccounts`
    ctPlatforms,      \* ClientsTab state `platformDetails`
    ctFetches,        \* ClientsTab: fetchClients calls in flight
    ctPending,        \* ClientsTab: handleSubmit suspended at its awaits (<<>> or <<call>>)
    ctToast,          \* ClientsTab: last toast shown
    clientWrites,     \* history: number of client rows written by the client form
    itInvoices,       \* InvoicesTab state `invoices` (rows with their joined client)
    itTransactions,   \* InvoicesTab state `transactions`: [id -> row with its joined client]
    itLoading,        \* InvoicesTab state `loading`
    itOpen,           \* InvoicesTab state `open`
    itSelected,       \* InvoicesTab state `selectedTransaction`: an id, 0 for ""
    itFetches,        \* InvoicesTab: fetchData calls in flight
    itPending,        \* InvoicesTab: generateInvoice suspended at an await (<<>> or <<call>>)
    itToast,          \* InvoicesTab: last toast shown
    invLocals,        \* history: per stored invoice, the row generateInvoice read
    itRender,         \* InvoicesTab: downloadJPEG suspended at an await (<<>> or <<call>>)
    itRenderLog,      \* history: per finished renderer call, its file and its message
    txLocals          \* history: per stored transaction, what handleSubmit read and computed

NULL == "<null>"

(***************************************************************************)
(* Exact rational arithmetic standing for JavaScript number arithmetic.     *)
(***************************************************************************)
Abs(i) == IF i < 0 THEN -i ELSE i

RECURSIVE GCD(_, _)
GCD(a, b) == IF b = 0 THEN a ELSE GCD(b, a % b)

NaN == [n |-> 0, d |-> 0]

IsNaN(x) == x.d = 0

\* n/d in lowest terms with a positive denominator (d # 0).
Rat(n, d) ==
    LET g == GCD(Abs(n), Abs(d))
        s == IF d < 0 THEN -1 ELSE 1
    IN  [n |-> s * (n \div g), d |-> s * (d \div g)]

FromInt(i) == [n |-> i, d |-> 1]

\* a * b
NumMul(a, b) ==
    IF IsNaN(a) \/ IsNaN(b) THEN NaN
    ELSE LET g1 == GCD(Abs(a.n), b.d)
             g2 == GCD(Abs(b.n), a.d)
         IN  Rat((a.n \div g1) * (b.n \div g2), (a.d \div g2) * (b.d \div g1))

\* a - b
NumSub(a, b) ==
    IF IsNaN(a) \/ IsNaN(b) THEN NaN
    ELSE Rat(a.n * b.d - b.n * a.d, a.d * b.d)

\* a / k for an integer literal k > 0 (the code only divides by 100)
NumDivInt(a, k) ==
    IF IsNaN(a) THEN NaN
    ELSE LET g == GCD(Abs(a.n), k)
         IN  Rat(a.n \div g, a.d * (k \div g))

\* a < b, false when either is NaN as in JavaScript
NumLt(a, b) == ~IsNaN(a) /\ ~IsNaN(b) /\ a.n * b.d < b.n * a.d

(***************************************************************************)
(* parseFloat, parseInt and Number.prototype.toString on character          *)
(* sequences.  parseFloat reads the longest prefix [-]digits[.digits] and   *)
(* yields NaN when that prefix holds no digit; parseInt reads [-]digits.    *)
(* Exponents, "Infinity" and leading blanks are outside the inputs used.    *)
(***************************************************************************)
Digits == <<"0", "1", "2", "3", "4", "5", "6", "7", "8", "9">>

IsDigit(c) == \E i \in 1..10 : Digits[i] = c

DigitVal(c) == (CHOOSE i \in 1..10 : Digits[i] = c) - 1

\* number of consecutive digits of s starting at position i
RECURSIVE DigitRun(_, _)
DigitRun(s, i) ==
    IF i <= Len(s) /\ IsDigit(s[i]) THEN 1 + DigitRun(s, i + 1) ELSE 0

\* value of the k digits of s starting at position i
RECURSIVE DigitsVal(_, _, _)
DigitsVal(s, i, k) ==
    IF k = 0 THEN 0 ELSE DigitsVal(s, i, k - 1) * 10 + DigitVal(s[i + k - 1])

RECURSIVE Pow10(_)
Pow10(k) == IF k = 0 THEN 1 ELSE 10 * Pow10(k - 1)

ParseFloat(s) ==
    LET neg  == Len(s) > 0 /\ s[1] = "-"
        st   == IF neg THEN 2 ELSE 1
        il   == DigitRun(s, st)
        dot  == st + il <= Len(s) /\ s[st + il] = "."
        fl   == IF dot THEN DigitRun(s, st + il + 1) ELSE 0
        mag  == DigitsVal(s, st, il) * Pow10(fl) + DigitsVal(s, st + il + 1, fl)
    IN  IF il + fl = 0 THEN NaN
        ELSE Rat(IF neg THEN -mag ELSE mag, Pow10(fl))

ParseInt(s) ==
    LET neg == Len(s) > 0 /\ s[1] = "-"
        st  == IF neg THEN 2 ELSE 1
        il  == DigitRun(s, st)
    IN  IF il = 0 THEN NaN
        ELSE FromInt(IF neg THEN -DigitsVal(s, st, il) ELSE DigitsVal(s, st, il))

\* idx.toString() for an array index
RECURSIVE IndexToString(_)
IndexToString(i) ==
    IF i < 10 THEN <<Digits[i + 1]>>
    ELSE IndexToString(i \div 10) \o <<Digits[(i % 10) + 1]>>

\* arr[x] for a JavaScript number x: a sequence of length 0 (undefined) or 1.
\* JavaScript indexes from 0, the sequence from 1.
ArrayAt(arr, x) ==
    IF ~IsNaN(x) /\ x.d = 1 /\ x.n >= 0 /\ x.n < Len(arr) THEN <<arr[x.n + 1]>> ELSE <<>>

(***************************************************************************)
(* Values the model draws from.                                             *)
(***************************************************************************)
BankA == [bank_name |-> "KBank", account_number |-> "1112223334", account_name |-> "Aye"]

BankB == [bank_name |-> "SCB", account_number |-> "5556667778", account_name |-> "Aye"]

BankC == [bank_name |-> "KPay", account_number |-> "0999888777", account_name |-> "Bo"]

PlatformY == [platform_name |-> "YouTube", payout_id |-> "YT-001"]

\* an entry added with the Payout ID box left empty (ClientsTab.tsx:48: payout_id "")
PlatformF == [platform_name |-> "Facebook", payout_id |-> ""]

Other == <<"O", "t", "h", "e", "r">>

\* texts typed into the Incoming Amount (THB) box
IncomingInputs ==
    { <<"1", "0", "0", "0", ".", "0", "0">>,
      <<"0", ".", "0", "7">>,
      <<"-", "5">>,
      <<>> }

\* texts typed into the Exchange Rate box
RateInputs ==
    { <<>>, <<"1", "2", "0", ".", "0", "0">>, <<"0">> }

\* texts typed into the Commission % box of the client form
CommissionInputs ==
    { <<"1", "5">>, <<"1", "2", ".", "5">> }

\* texts the Commission % box is given in the client form, among them a
\* percentage above 100, a negative one and the emptied box
CommissionBoxInputs ==
    CommissionInputs \cup { <<"1", "0", "0">>, <<"1", "5", "0">>, <<"-", "1">>, <<>> }

ClientIds == {"c1", "c2"}

\* A text that may carry markup is a sequence of pieces: runs of characters and
\* tags.  A client's name is typed into a free text box (ClientsTab.tsx:83).
InitialClients ==
    [id \in ClientIds |->
        IF id = "c1"
        THEN [name |-> <<"Aye">>, phone |-> "0812345678",
              commission_percentage |-> FromInt(10),
              preferred_payout_currency |-> "THB",
              bank_account |-> <<BankA, BankB>>,
              platform_details |-> <<PlatformY, PlatformF>>]
        ELSE [name |-> <<"Bo">>, phone |-> NULL,
              commission_percentage |-> FromInt(10),
              preferred_payout_currency |-> "MMK",
              bank_account |-> <<BankC>>,
              platform_details |-> <<>>]]

\* number of transactions created in a run
MaxTransactions == 1

\* number of client rows written through the client form in a run
MaxClientWrites == 1

\* longest bank-account or platform list the client form is given
MaxListLen == 2

\* invoice numbers the sequence hands out in a run
MaxInvoiceNumbers == 2

\* renderer calls in a run
MaxRenders == 2

(***************************************************************************)
(* Sequence helpers.                                                        *)
(***************************************************************************)
RemoveAt(seq, i) == SubSeq(seq, 1, i - 1) \o SubSeq(seq, i + 1, Len(seq))

\* the option values "0", "1", ... rendered for a list (index.js:278-279, 297-298)
IndexOptions(list) == { IndexToString(i - 1) : i \in 1..Len(list) }

(***************************************************************************)
(* TransactionsTab (src/backend/index.js:85-218).                           *)
(***************************************************************************)
EmptyForm == [client_id |-> "", source_platform |-> <<>>, payment_destination_index |-> <<>>]

\* mutant: the division by 100 is forgotten
MutCommissionAmountThb(incomingAmountThb, commission_percentage) ==
    NumMul(incomingAmountThb, commission_percentage)

\* index.js:150
CommissionAmountThb(incomingAmountThb, commission_percentage) ==
    NumDivInt(NumMul(incomingAmountThb, commission_percentage), 100)

\* index.js:151
NetPayableThb(incomingAmountThb, commissionAmountThb) ==
    NumSub(incomingAmountThb, commissionAmountThb)

\* mutant: the conversion is applied to the other currency
MutPayoutAmount(payoutCurrency, netPayableThb, exchangeRateMmk) ==
    IF payoutCurrency = "THB" THEN NumMul(netPayableThb, exchangeRateMmk) ELSE netPayableThb

\* index.js:154-155
PayoutAmount(payoutCurrency, netPayableThb, exchangeRateMmk) ==
    IF payoutCurrency = "MMK" THEN NumMul(netPayableThb, exchangeRateMmk) ELSE netPayableThb

\* mutant: the index is taken one-based
MutPaymentDestination(form, banks) ==
    IF form.payment_destination_index # <<>> /\ Len(banks) > 0
    THEN ArrayAt(banks, NumSub(ParseInt(form.payment_destination_index), FromInt(1)))
    ELSE <<>>

\* index.js:157-162; JSON drops an undefined member, the column then defaults to null
PaymentDestination(form, banks) ==
    IF form.payment_destination_index # <<>> /\ Len(banks) > 0
    THEN ArrayAt(banks, ParseInt(form.payment_destination_index))
    ELSE <<>>

\* mutant: the entry's payout_id is stored as it is, without `|| null`, and
\* "Other" is looked up like an index
MutSourcePlatform(form, platforms) ==
    IF form.source_platform # <<>>
    THEN LET selectedPlatform == ArrayAt(platforms, ParseInt(form.source_platform))
         IN  IF selectedPlatform # <<>>
             THEN <<selectedPlatform[1].platform_name, selectedPlatform[1].payout_id>>
             ELSE <<NULL, NULL>>
    ELSE <<NULL, NULL>>

\* index.js:164-177: <<source_platform, source_platform_payout_id>>
SourcePlatform(form, platforms) ==
    IF form.source_platform # <<>> /\ form.source_platform # Other
    THEN LET selectedPlatform == ArrayAt(platforms, ParseInt(form.source_platform))
         IN  IF selectedPlatform # <<>>
             THEN <<selectedPlatform[1].platform_name,
                    IF selectedPlatform[1].payout_id # "" /\ selectedPlatform[1].payout_id # NULL
                    THEN selectedPlatform[1].payout_id ELSE NULL>>
             ELSE <<NULL, NULL>>
    ELSE IF form.source_platform = Other
         THEN <<"Other", NULL>>
         ELSE <<NULL, NULL>>

\* mutant: a missing client falls back to the first loaded one
MutFindClient(clients, client_id) ==
    IF client_id \in DOMAIN clients THEN <<clients[client_id]>>
    ELSE IF DOMAIN clients # {} THEN <<clients[CHOOSE c \in DOMAIN clients : TRUE]>>
    ELSE <<>>

\* index.js:143: clients.find(c => c.id === formData.client_id), <<>> when undefined
FindClient(clients, client_id) ==
    IF client_id \in DOMAIN clients THEN <<clients[client_id]>> ELSE <<>>

\* index.js:146-177: the locals of handleSubmit, with what they were computed from
SubmitLocals(form, incoming, rate, client, banks, platforms) ==
    LET incomingAmountThb   == ParseFloat(incoming)
        exchangeRateMmk     == ParseFloat(IF rate # <<>> THEN rate ELSE <<"0">>)
        commissionAmountThb == CommissionAmountThb(incomingAmountThb, client.commission_percentage)
        netPayableThb       == NetPayableThb(incomingAmountThb, commissionAmountThb)
        payoutCurrency      == client.preferred_payout_currency
        platform            == SourcePlatform(form, platforms)
    IN  [form |-> form, incoming |-> incoming, rate |-> rate, client |-> client,
         banks |-> banks, platforms |-> platforms,
         incomingAmountThb |-> incomingAmountThb,
         exchangeRateMmk |-> exchangeRateMmk,
         commissionAmountThb |-> commissionAmountThb,
         netPayableThb |-> netPayableThb,
         payoutCurrency |-> payoutCurrency,
         payoutAmount |-> PayoutAmount(payoutCurrency, netPayableThb, exchangeRateMmk),
         paymentDestination |-> PaymentDestination(form, banks),
         sourcePlatformName |-> platform[1],
         sourcePlatformPayoutId |-> platform[2]]

\* index.js:179-192.  original_amount_usd, transaction_date and notes are copied
\* from the form and read by no computation; they are left out of the row.
TransactionData(l) ==
    [client_id |-> l.form.client_id,
     incoming_amount_thb |-> l.incomingAmountThb,
     fees |-> FromInt(0),
     exchange_rate_mmk |-> l.exchangeRateMmk,
     payout_currency |-> l.payoutCurrency,
     payout_amount |-> l.payoutAmount,
     source_platform |-> l.sourcePlatformName,
     source_platform_payout_id |-> l.sourcePlatformPayoutId,
     payment_destination |-> l.paymentDestination]

\* mutant: the amount boxes have no min
MutValidAmountText(s) ==
    LET x == ParseFloat(s)
    IN  ~IsNaN(x) /\ 100 % x.d = 0

\* The browser's constraint validation of the native inputs runs before onSubmit:
\* Incoming Amount is required, a number, min 0, step 0.01 (index.js:320-328);
\* Exchange Rate is min 0, step 0.01, required for MMK, and disabled for THB
\* (index.js:334-344), where it keeps its initial empty text.
ValidAmountText(s) ==
    LET x == ParseFloat(s)
    IN  ~IsNaN(x) /\ x.n >= 0 /\ 100 % x.d = 0

\* mutant: the Exchange Rate box is never required
MutFormValid(incoming, rate, selCurrency) ==
    /\ ValidAmountText(incoming)
    /\ rate = <<>> \/ ValidAmountText(rate)

FormValid(incoming, rate, selCurrency) ==
    /\ ValidAmountText(incoming)
    /\ \/ rate = <<>> /\ selCurrency # "MMK"
       \/ rate # <<>> /\ ValidAmountText(rate)

\* index.js:213-214, ClientsTab.tsx:114-115 and InvoicesTab.tsx:161-162: each
\* handler's catch block shows the thrown error's message under the title Error
\* mutant: a refused write is reported as a success
MutStoreErrorToast == "Success"

StoreErrorToast == "Error: store"

\* The record store's insert into transactions: the NOT NULL column
\* incoming_amount_thb (part_000:128; NaN is sent as JSON null) and the foreign
\* key transactions_client_id_fkey (part_000:156-164).
StoreAcceptsTransaction(row) ==
    /\ ~IsNaN(row.incoming_amount_thb)
    /\ row.client_id \in DOMAIN dbClients

SentFetch == [st |-> "sent", clients |-> <<>>, transactions |-> {}]

ttVars == <<ttClients, ttTransactions, ttLoading, ttOpen, ttForm, ttSelPlatforms,
            ttSelBanks, ttSelCurrency, ttFetches, ttPending, ttToast>>

dbVars == <<dbClients, dbTransactions, dbInvoices, invoiceSeq>>

renderVars == <<itRender, itRenderLog>>

itVars == <<itInvoices, itTransactions, itLoading, itOpen, itSelected, itFetches,
            itPending, itToast, invLocals, renderVars>>

ctVars == <<ctClients, ctLoading, ctOpen, ctEditing, ctForm, ctBanks, ctPlatforms,
            ctFetches, ctPending, ctToast, clientWrites>>

\* index.js:109-120: the two selects are answered by the record store
TT_FetchServe(i, ok) ==
    /\ i \in 1..Len(ttFetches)
    /\ ttFetches[i].st = "sent"
    /\ ttFetches' = [ttFetches EXCEPT ![i] =
            IF ok THEN [st |-> "ok", clients |-> dbClients,
                        transactions |-> 1..Len(dbTransactions)]
                  ELSE [st |-> "error", clients |-> <<>>, transactions |-> {}]]
    /\ UNCHANGED <<dbVars, ctVars, itVars, txLocals, ttClients, ttTransactions, ttLoading, ttOpen, ttForm,
                   ttSelPlatforms, ttSelBanks, ttSelCurrency, ttPending, ttToast>>

\* index.js:122-135: the rest of fetchData, once both selects have answered
TT_FetchApply(i) ==
    /\ i \in 1..Len(ttFetches)
    /\ ttFetches[i].st # "sent"
    /\ IF ttFetches[i].st = "ok"
       THEN /\ ttTransactions' = ttFetches[i].transactions
            /\ ttClients' = ttFetches[i].clients
            /\ UNCHANGED ttToast
       ELSE /\ ttToast' = "Error: fetch"
            /\ UNCHANGED <<ttTransactions, ttClients>>
    /\ ttLoading' = FALSE
    /\ ttFetches' = RemoveAt(ttFetches, i)
    /\ UNCHANGED <<dbVars, ctVars, itVars, txLocals, ttOpen, ttForm, ttSelPlatforms, ttSelBanks,
                   ttSelCurrency, ttPending>>

\* The operator leaves the dialog alone while a submit is in flight (ttPending
\* = <<>> in the four actions below): handleSubmit has read everything it uses
\* before its await, and its success path overwrites the form.

\* index.js:229-235: the dialog's onOpenChange; the trigger is disabled without
\* clients.  The dialog is no longer opened once the run's transactions are made.
TT_SetOpen(value) ==
    /\ ttPending = <<>>
    /\ value # ttOpen
    /\ value => DOMAIN ttClients # {} /\ Len(dbTransactions) < MaxTransactions
    /\ ttOpen' = value
    /\ UNCHANGED <<dbVars, ctVars, itVars, txLocals, ttClients, ttTransactions, ttLoading, ttForm,
                   ttSelPlatforms, ttSelBanks, ttSelCurrency, ttFetches, ttPending, ttToast>>

\* mutant: the bank and platform selections are kept when the client changes
MutFormAfterSelectClient(form, value) == [form EXCEPT !.client_id = value]

\* index.js:247: the form after the client Select changed
FormAfterSelectClient(form, value) ==
    [form EXCEPT !.client_id = value, !.source_platform = <<>>,
                 !.payment_destination_index = <<>>]

\* index.js:245-251: the client Select's onValueChange
TT_SelectClient(value) ==
    /\ ttOpen /\ ttPending = <<>>
    /\ value \in DOMAIN ttClients
    /\ ttForm' = FormAfterSelectClient(ttForm, value)
    /\ ttSelPlatforms' = ttClients[value].platform_details
    /\ ttSelBanks' = ttClients[value].bank_account
    /\ ttSelCurrency' = ttClients[value].preferred_payout_currency
    /\ UNCHANGED <<dbVars, ctVars, itVars, txLocals, ttClients, ttTransactions, ttLoading, ttOpen,
                   ttFetches, ttPending, ttToast>>

\* index.js:268-284: the bank Select
TT_SelectBank(value) ==
    /\ ttOpen /\ ttPending = <<>>
    /\ ttForm.client_id # "" /\ Len(ttSelBanks) > 0
    /\ value \in IndexOptions(ttSelBanks)
    /\ value # ttForm.payment_destination_index
    /\ ttForm' = [ttForm EXCEPT !.payment_destination_index = value]
    /\ UNCHANGED <<dbVars, ctVars, itVars, txLocals, ttClients, ttTransactions, ttLoading, ttOpen,
                   ttSelPlatforms, ttSelBanks, ttSelCurrency, ttFetches, ttPending, ttToast>>

\* index.js:288-304: the platform Select
TT_SelectPlatform(value) ==
    /\ ttOpen /\ ttPending = <<>>
    /\ ttForm.client_id # "" /\ Len(ttSelPlatforms) > 0
    /\ value \in IndexOptions(ttSelPlatforms) \cup {Other}
    /\ value # ttForm.source_platform
    /\ ttForm' = [ttForm EXCEPT !.source_platform = value]
    /\ UNCHANGED <<dbVars, ctVars, itVars, txLocals, ttClients, ttTransactions, ttLoading, ttOpen,
                   ttSelPlatforms, ttSelBanks, ttSelCurrency, ttFetches, ttPending, ttToast>>

\* index.js:138-194 and, when the client is missing, 213-217: handleSubmit up to
\* its await.  The submit button is disabled while loading (index.js:364).
TT_SubmitStart(incoming, rate) ==
    /\ ttOpen
    /\ ~ttLoading
    /\ ttPending = <<>>
    /\ Len(dbTransactions) < MaxTransactions
    /\ FormValid(incoming, rate, ttSelCurrency)
    /\ LET client == FindClient(ttClients, ttForm.client_id)
       IN  IF client = <<>>
           THEN /\ ttToast' = "Error: Client not found"
                /\ ttLoading' = FALSE
                /\ UNCHANGED ttPending
           ELSE /\ ttPending' = <<SubmitLocals(ttForm, incoming, rate, client[1],
                                               ttSelBanks, ttSelPlatforms)>>
                /\ ttLoading' = TRUE
                /\ UNCHANGED ttToast
    /\ UNCHANGED <<dbVars, ctVars, itVars, txLocals, ttClients, ttTransactions, ttOpen, ttForm,
                   ttSelPlatforms, ttSelBanks, ttSelCurrency, ttFetches>>

\* index.js:194-217: the store answers the insert and handleSubmit resumes.
\* The store's commit and the delivery of its answer are one step.
TT_SubmitFinish(storeUp) ==
    /\ ttPending # <<>>
    /\ IF storeUp /\ StoreAcceptsTransaction(TransactionData(ttPending[1]))
       THEN /\ dbTransactions' = Append(dbTransactions, TransactionData(ttPending[1]))
            /\ txLocals' = Append(txLocals, ttPending[1])
            /\ ttToast' = "Success"
            /\ ttOpen' = FALSE
            /\ ttForm' = EmptyForm
            /\ ttSelPlatforms' = <<>>
            /\ ttSelBanks' = <<>>
            /\ ttSelCurrency' = ""
            /\ ttFetches' = Append(ttFetches, SentFetch)
       ELSE /\ ttToast' = StoreErrorToast
            /\ UNCHANGED <<dbTransactions, txLocals, ttOpen, ttForm, ttSelPlatforms,
                           ttSelBanks, ttSelCurrency, ttFetches>>
    /\ ttPending' = <<>>
    /\ ttLoading' = FALSE
    /\ UNCHANGED <<dbClients, dbInvoices, invoiceSeq, ttClients, ttTransactions, ctVars,
                   itVars>>

(***************************************************************************)
(* ClientsTab (src/src/components/dashboard/ClientsTab.tsx:34-167).         *)
(* The name and phone boxes are copied into the row and read by no          *)
(* computation; they are left out of the form and of the row's writes.      *)
(***************************************************************************)
\* ClientsTab.tsx:108: the form's reset value
EmptyClientForm == [commission_percentage |-> <<"0">>, preferred_payout_currency |-> "THB"]

\* the decimal digits of r/d for 0 <= r < d, at most k of them
RECURSIVE FractionDigits(_, _, _)
FractionDigits(r, d, k) ==
    IF r = 0 \/ k = 0 THEN <<>>
    ELSE <<Digits[((r * 10) \div d) + 1]>> \o FractionDigits((r * 10) % d, d, k - 1)

\* ClientsTab.tsx:126: commission_percentage.toString() for a number >= 0 whose
\* decimal expansion ends within six digits
NumToString(x) ==
    LET frac == FractionDigits(x.n % x.d, x.d, 6)
    IN  IndexToString(x.n \div x.d) \o (IF frac = <<>> THEN <<>> ELSE <<".">> \o frac)

\* mutant: the Commission % box has no max
MutValidCommissionText(s) ==
    LET x == ParseFloat(s)
    IN  ~IsNaN(x) /\ x.n >= 0 /\ 100 % x.d = 0

\* ClientsTab.tsx:304-316: the Commission % box is required, min 0, max 100, step 0.01
ValidCommissionText(s) ==
    LET x == ParseFloat(s)
    IN  ~IsNaN(x) /\ x.n >= 0 /\ x.n <= 100 * x.d /\ 100 % x.d = 0

\* ClientsTab.tsx:83-91.  The Name and Phone boxes keep what handleEdit or the
\* Add Client button put there: they are passed as name and phone.
ClientData(form, banks, platforms, name, phone) ==
    [name |-> name,
     phone |-> IF phone = "" THEN NULL ELSE phone,
     commission_percentage |-> ParseFloat(form.commission_percentage),
     preferred_payout_currency |-> form.preferred_payout_currency,
     bank_account |-> banks,
     platform_details |-> platforms]

\* mutant: the update appends the form's lists to the stored ones
MutClientsAfterUpdate(clients, id, data) ==
    IF id \in DOMAIN clients
    THEN [clients EXCEPT ![id] =
             [data EXCEPT !.bank_account = clients[id].bank_account \o data.bank_account,
                          !.platform_details =
                              clients[id].platform_details \o data.platform_details]]
    ELSE clients

\* ClientsTab.tsx:94-97: update(clientData).eq("id", editingClient.id); a missing
\* id matches no row and is no error
ClientsAfterUpdate(clients, id, data) ==
    IF id \in DOMAIN clients THEN [clients EXCEPT ![id] = data] ELSE clients

\* mutant: an update rewrites the snapshots of the client's stored transactions
\* from the client's new bank list and currency
MutTransactionsAfterClientWrite(transactions, id, data) ==
    [i \in 1..Len(transactions) |->
        IF transactions[i].client_id = id
        THEN [transactions[i] EXCEPT
                 !.payment_destination =
                     IF data.bank_account = <<>> THEN <<>> ELSE <<data.bank_account[1]>>,
                 !.payout_currency = data.preferred_payout_currency]
        ELSE transactions[i]]

\* ClientsTab.tsx:94-101: the write goes to table clients alone; table
\* transactions keeps its rows
TransactionsAfterClientWrite(transactions, id, data) == transactions

SentClientFetch == [st |-> "sent", clients |-> <<>>]

\* ClientsTab.tsx:57-60: the select is answered by the record store
CT_FetchServe(i, ok) ==
    /\ i \in 1..Len(ctFetches)
    /\ ctFetches[i].st = "sent"
    /\ ctFetches' = [ctFetches EXCEPT ![i] =
            IF ok THEN [st |-> "ok", clients |-> dbClients]
                  ELSE [st |-> "error", clients |-> <<>>]]
    /\ UNCHANGED <<dbVars, ttVars, itVars, txLocals, ctClients, ctLoading, ctOpen, ctEditing, ctForm,
                   ctBanks, ctPlatforms, ctPending, ctToast, clientWrites>>

\* ClientsTab.tsx:62-72: the rest of fetchClients
CT_FetchApply(i) ==
    /\ i \in 1..Len(ctFetches)
    /\ ctFetches[i].st # "sent"
    /\ IF ctFetches[i].st = "ok"
       THEN ctClients' = ctFetches[i].clients /\ UNCHANGED ctToast
       ELSE ctToast' = "Error: fetch" /\ UNCHANGED ctClients
    /\ ctLoading' = FALSE
    /\ ctFetches' = RemoveAt(ctFetches, i)
    /\ UNCHANGED <<dbVars, ttVars, itVars, txLocals, ctOpen, ctEditing, ctForm, ctBanks,
                   ctPlatforms, ctPending, clientWrites>>

\* The operator leaves the dialog alone while a submit is in flight (ctPending
\* = <<>> in the form actions below): handleSubmit's closure holds everything it
\* uses, and its success path overwrites the form.

\* mutant: the Add Client button leaves editingClient as it is
MutEditingAfterAddClient(editing) == editing

\* ClientsTab.tsx:180: setEditingClient(null)
EditingAfterAddClient(editing) == <<>>

\* ClientsTab.tsx:177-190: the Add Client button resets the form; the trigger opens the dialog
CT_OpenAdd ==
    /\ ~ctOpen /\ ctPending = <<>>
    /\ clientWrites < MaxClientWrites
    /\ ctEditing' = EditingAfterAddClient(ctEditing)
    /\ ctForm' = EmptyClientForm
    /\ ctBanks' = <<>>
    /\ ctPlatforms' = <<>>
    /\ ctOpen' = TRUE
    /\ UNCHANGED <<dbVars, ttVars, itVars, txLocals, ctClients, ctLoading, ctFetches, ctPending,
                   ctToast, clientWrites>>

\* ClientsTab.tsx:121-132
CT_HandleEdit(id) ==
    /\ ~ctOpen /\ ctPending = <<>>
    /\ clientWrites < MaxClientWrites
    /\ id \in DOMAIN ctClients
    /\ ctEditing' = <<id>>
    /\ ctForm' = [commission_percentage |-> NumToString(ctClients[id].commission_percentage),
                  preferred_payout_currency |-> ctClients[id].preferred_payout_currency]
    /\ ctBanks' = ctClients[id].bank_account
    /\ ctPlatforms' = ctClients[id].platform_details
    /\ ctOpen' = TRUE
    /\ UNCHANGED <<dbVars, ttVars, itVars, txLocals, ctClients, ctLoading, ctFetches, ctPending,
                   ctToast, clientWrites>>

\* ClientsTab.tsx:177: the dialog's onOpenChange(false); the form keeps its content
CT_Dismiss ==
    /\ ctOpen /\ ctPending = <<>>
    /\ ctOpen' = FALSE
    /\ UNCHANGED <<dbVars, ttVars, itVars, txLocals, ctClients, ctLoading, ctEditing, ctForm,
                   ctBanks, ctPlatforms, ctFetches, ctPending, ctToast, clientWrites>>

\* ClientsTab.tsx:313: the Commission % box's onChange
CT_SetCommission(text) ==
    /\ ctOpen /\ ctPending = <<>>
    /\ text # ctForm.commission_percentage
    /\ ctForm' = [ctForm EXCEPT !.commission_percentage = text]
    /\ UNCHANGED <<dbVars, ttVars, itVars, txLocals, ctClients, ctLoading, ctOpen, ctEditing,
                   ctBanks, ctPlatforms, ctFetches, ctPending, ctToast, clientWrites>>

\* ClientsTab.tsx:319-322: the currency Select's onValueChange
CT_SetCurrency(value) ==
    /\ ctOpen /\ ctPending = <<>>
    /\ value # ctForm.preferred_payout_currency
    /\ ctForm' = [ctForm EXCEPT !.preferred_payout_currency = value]
    /\ UNCHANGED <<dbVars, ttVars, itVars, txLocals, ctClients, ctLoading, ctOpen, ctEditing,
                   ctBanks, ctPlatforms, ctFetches, ctPending, ctToast, clientWrites>>

\* ClientsTab.tsx:134-139, with the three boxes of newBank filled in
CT_AddBankAccount(newBank) ==
    /\ ctOpen /\ ctPending = <<>>
    /\ Len(ctBanks) < MaxListLen
    /\ ctBanks' = Append(ctBanks, newBank)
    /\ UNCHANGED <<dbVars, ttVars, itVars, txLocals, ctClients, ctLoading, ctOpen, ctEditing,
                   ctForm, ctPlatforms, ctFetches, ctPending, ctToast, clientWrites>>

\* ClientsTab.tsx:141-143
CT_RemoveBankAccount(index) ==
    /\ ctOpen /\ ctPending = <<>>
    /\ index \in 0..(Len(ctBanks) - 1)
    /\ ctBanks' = RemoveAt(ctBanks, index + 1)
    /\ UNCHANGED <<dbVars, ttVars, itVars, txLocals, ctClients, ctLoading, ctOpen, ctEditing,
                   ctForm, ctPlatforms, ctFetches, ctPending, ctToast, clientWrites>>

\* ClientsTab.tsx:145-150, with a platform chosen in newPlatform
CT_AddPlatformDetail(newPlatform) ==
    /\ ctOpen /\ ctPending = <<>>
    /\ Len(ctPlatforms) < MaxListLen
    /\ ctPlatforms' = Append(ctPlatforms, newPlatform)
    /\ UNCHANGED <<dbVars, ttVars, itVars, txLocals, ctClients, ctLoading, ctOpen, ctEditing,
                   ctForm, ctBanks, ctFetches, ctPending, ctToast, clientWrites>>

\* ClientsTab.tsx:152-154
CT_RemovePlatformDetail(index) ==
    /\ ctOpen /\ ctPending = <<>>
    /\ index \in 0..(Len(ctPlatforms) - 1)
    /\ ctPlatforms' = RemoveAt(ctPlatforms, index + 1)
    /\ UNCHANGED <<dbVars, ttVars, itVars, txLocals, ctClients, ctLoading, ctOpen, ctEditing,
                   ctForm, ctBanks, ctFetches, ctPending, ctToast, clientWrites>>

\* ClientsTab.tsx:75-91: handleSubmit up to its awaits; the closure holds the
\* form, the two lists and editingClient.  The submit button is disabled while
\* loading (ClientsTab.tsx:332).
CT_SubmitStart ==
    /\ ctOpen
    /\ ~ctLoading
    /\ ctPending = <<>>
    /\ clientWrites < MaxClientWrites
    /\ ValidCommissionText(ctForm.commission_percentage)
    /\ ctPending' = <<[editing |-> ctEditing, form |-> ctForm, banks |-> ctBanks,
                       platforms |-> ctPlatforms]>>
    /\ ctLoading' = TRUE
    /\ UNCHANGED <<dbVars, ttVars, itVars, txLocals, ctClients, ctOpen, ctEditing, ctForm, ctBanks,
                   ctPlatforms, ctFetches, ctToast, clientWrites>>

\* the id the store gives an inserted client
FreshClientId == "c3"

\* ClientsTab.tsx:80-118: getUser and the store answer and handleSubmit resumes.
\* outcome: "ok", "unauthenticated" (no user) or "error" (the store refuses).
CT_SubmitFinish(outcome) ==
    /\ ctPending # <<>>
    /\ LET call == ctPending[1]
           name == IF call.editing # <<>> /\ call.editing[1] \in DOMAIN ctClients
                   THEN ctClients[call.editing[1]].name ELSE <<"New">>
           phone == IF call.editing # <<>> /\ call.editing[1] \in DOMAIN ctClients
                    THEN ctClients[call.editing[1]].phone ELSE ""
           data == ClientData(call.form, call.banks, call.platforms, name, phone)
       IN  IF outcome = "ok" /\ (call.editing # <<>> \/ FreshClientId \notin DOMAIN dbClients)
           THEN /\ IF call.editing # <<>>
                   THEN /\ dbClients' = ClientsAfterUpdate(dbClients, call.editing[1], data)
                        /\ dbTransactions' =
                               TransactionsAfterClientWrite(dbTransactions, call.editing[1], data)
                   ELSE /\ dbClients' = [id \in DOMAIN dbClients \cup {FreshClientId} |->
                                            IF id = FreshClientId THEN data ELSE dbClients[id]]
                        /\ dbTransactions' =
                               TransactionsAfterClientWrite(dbTransactions, FreshClientId, data)
                /\ ctToast' = "Success"
                /\ ctOpen' = FALSE
                /\ ctEditing' = <<>>
                /\ ctForm' = EmptyClientForm
                /\ ctBanks' = <<>>
                /\ ctPlatforms' = <<>>
                /\ ctFetches' = Append(ctFetches, SentClientFetch)
                /\ clientWrites' = clientWrites + 1
           ELSE /\ ctToast' = (IF outcome = "unauthenticated" THEN "Error: Not authenticated"
                                                              ELSE StoreErrorToast)
                /\ UNCHANGED <<dbClients, dbTransactions, ctOpen, ctEditing, ctForm, ctBanks,
                               ctPlatforms, ctFetches, clientWrites>>
    /\ ctPending' = <<>>
    /\ ctLoading' = FALSE
    /\ UNCHANGED <<dbInvoices, invoiceSeq, ttVars, itVars, txLocals, ctClients>>

(***************************************************************************)
(* InvoicesTab (src/src/components/dashboard/InvoicesTab.tsx:70-166).       *)
(***************************************************************************)
\* InvoicesTab.tsx:94-105: a transaction row with its joined client
EligibleRow(id) ==
    LET t == dbTransactions[id]
    IN  [id |-> id,
         incoming_amount_thb |-> t.incoming_amount_thb,
         fees |-> t.fees,
         exchange_rate_mmk |-> t.exchange_rate_mmk,
         payout_currency |-> t.payout_currency,
         payout_amount |-> t.payout_amount,
         clients |-> [id |-> t.client_id,
                      name |-> dbClients[t.client_id].name,
                      commission_percentage |-> dbClients[t.client_id].commission_percentage,
                      preferred_payout_currency |->
                          dbClients[t.client_id].preferred_payout_currency]]

\* InvoicesTab.tsx:86-93: an invoice row with its joined client and transaction
InvoiceRow(id) ==
    [id |-> id,
     invoice |-> dbInvoices[id],
     clients |-> dbClients[dbInvoices[id].client_id],
     transactions |-> dbTransactions[dbInvoices[id].transaction_id]]

\* InvoicesTab.tsx:114-116: the transactions no loaded invoice refers to
AvailableTransactions(invoicesData, allTransactions) ==
    LET invoicedTransactionIds ==
            { invoicesData[k].invoice.transaction_id : k \in 1..Len(invoicesData) }
    IN  [id \in (DOMAIN allTransactions) \ invoicedTransactionIds |-> allTransactions[id]]

\* InvoicesTab.tsx:139
CommissionAmount(transaction) ==
    NumDivInt(NumMul(transaction.incoming_amount_thb,
                     transaction.clients.commission_percentage), 100)

\* mutant: the commission is not taken off
MutNetAmount(transaction, commissionAmount) ==
    NumSub(transaction.incoming_amount_thb, transaction.fees)

\* InvoicesTab.tsx:140
NetAmount(transaction, commissionAmount) ==
    NumSub(NumSub(transaction.incoming_amount_thb, commissionAmount), transaction.fees)

\* mutant: the row carries a fixed number instead of the one the allocator gave
MutInvoiceData(transaction, invoiceNumber) ==
    [client_id |-> transaction.clients.id,
     transaction_id |-> transaction.id,
     invoice_number |-> IF invoiceNumber = NULL THEN NULL ELSE <<"I", "N", "V", "-", "1">>,
     total_amount |-> transaction.incoming_amount_thb,
     commission_amount |-> CommissionAmount(transaction),
     net_amount |-> NetAmount(transaction, CommissionAmount(transaction))]

\* InvoicesTab.tsx:144-153: the row sent to the store
InvoiceData(transaction, invoiceNumber) ==
    [client_id |-> transaction.clients.id,
     transaction_id |-> transaction.id,
     invoice_number |-> invoiceNumber,
     total_amount |-> transaction.incoming_amount_thb,
     commission_amount |-> CommissionAmount(transaction),
     net_amount |-> NetAmount(transaction, CommissionAmount(transaction))]

\* The record store's insert into invoices: invoice_number is NOT NULL
\* (part_000:62, 72), the two foreign keys hold (part_000:87-102), and
\* transaction_id carries no uniqueness (part_000:98: isOneToOne false).
StoreAcceptsInvoice(row) ==
    /\ row.invoice_number # NULL
    /\ row.client_id \in DOMAIN dbClients
    /\ row.transaction_id \in 1..Len(dbTransactions)

\* generate_invoice_number (part_000:171): the next number of the sequence
InvoiceNumber(seq) == <<"I", "N", "V", "-">> \o IndexToString(seq)

SentInvoiceFetch == [st |-> "sent", invoices |-> <<>>, transactions |-> <<>>]

\* InvoicesTab.tsx:85-106: both selects are answered by the record store, in one
\* step; invoices come newest first (order created_at descending)
IT_FetchServe(i, ok) ==
    /\ UNCHANGED renderVars
    /\ i \in 1..Len(itFetches)
    /\ itFetches[i].st = "sent"
    /\ itFetches' = [itFetches EXCEPT ![i] =
            IF ok THEN [st |-> "ok",
                        invoices |-> [k \in 1..Len(dbInvoices) |->
                                         InvoiceRow(Len(dbInvoices) + 1 - k)],
                        transactions |-> [id \in 1..Len(dbTransactions) |-> EligibleRow(id)]]
                  ELSE [st |-> "error", invoices |-> <<>>, transactions |-> <<>>]]
    /\ UNCHANGED <<dbVars, ttVars, ctVars, txLocals, itInvoices, itTransactions, itLoading,
                   itOpen, itSelected, itPending, itToast, invLocals>>

\* InvoicesTab.tsx:108-128: the rest of fetchData
IT_FetchApply(i) ==
    /\ UNCHANGED renderVars
    /\ i \in 1..Len(itFetches)
    /\ itFetches[i].st # "sent"
    /\ IF itFetches[i].st = "ok"
       THEN /\ itInvoices' = itFetches[i].invoices
            /\ itTransactions' =
                   AvailableTransactions(itFetches[i].invoices, itFetches[i].transactions)
            /\ UNCHANGED itToast
       ELSE /\ itToast' = "Error: fetch"
            /\ UNCHANGED <<itInvoices, itTransactions>>
    /\ itLoading' = FALSE
    /\ itFetches' = RemoveAt(itFetches, i)
    /\ UNCHANGED <<dbVars, ttVars, ctVars, txLocals, itOpen, itSelected, itPending, invLocals>>

\* InvoicesTab.tsx:613 and 692: the Generate Invoice button (disabled without
\* eligible transactions) and the dialog's onOpenChange
IT_SetOpen(value) ==
    /\ UNCHANGED renderVars
    /\ itPending = <<>>
    /\ value # itOpen
    /\ value => DOMAIN itTransactions # {}
    /\ value => invoiceSeq < MaxInvoiceNumbers
    /\ itOpen' = value
    /\ UNCHANGED <<dbVars, ttVars, ctVars, txLocals, itInvoices, itTransactions, itLoading,
                   itSelected, itFetches, itPending, itToast, invLocals>>

\* InvoicesTab.tsx:700-711: the transaction Select
IT_SelectTransaction(id) ==
    /\ UNCHANGED renderVars
    /\ itOpen /\ itPending = <<>>
    /\ id \in DOMAIN itTransactions
    /\ id # itSelected
    /\ itSelected' = id
    /\ UNCHANGED <<dbVars, ttVars, ctVars, txLocals, itInvoices, itTransactions, itLoading,
                   itOpen, itFetches, itPending, itToast, invLocals>>

\* mutant: a selection that is not in the list falls back to a listed transaction
MutFindTransaction(transactions, selected) ==
    IF selected \in DOMAIN transactions THEN <<transactions[selected]>>
    ELSE IF DOMAIN transactions # {}
         THEN <<transactions[CHOOSE id \in DOMAIN transactions : TRUE]>>
         ELSE <<>>

\* InvoicesTab.tsx:136: transactions.find((t) => t.id === selectedTransaction)
FindTransaction(transactions, selected) ==
    IF selected \in DOMAIN transactions THEN <<transactions[selected]>> ELSE <<>>

\* InvoicesTab.tsx:131-142 and, when the transaction is missing, 161-165:
\* generateInvoice up to its first await.  The button is disabled without a
\* selection and while loading (InvoicesTab.tsx:716).  One generateInvoice runs
\* at a time (itPending = <<>>).
IT_GenerateStart ==
    /\ UNCHANGED renderVars
    /\ itOpen
    /\ itSelected # 0
    /\ ~itLoading
    /\ itPending = <<>>
    /\ invoiceSeq < MaxInvoiceNumbers
    /\ LET transaction == FindTransaction(itTransactions, itSelected)
       IN  IF transaction = <<>>
           THEN /\ itToast' = "Error: Transaction not found"
                /\ itLoading' = FALSE
                /\ UNCHANGED itPending
           ELSE /\ itPending' = <<[phase |-> "rpc", transaction |-> transaction[1],
                                   invoice_number |-> NULL]>>
                /\ itLoading' = TRUE
                /\ UNCHANGED itToast
    /\ UNCHANGED <<dbVars, ttVars, ctVars, txLocals, itInvoices, itTransactions, itOpen,
                   itSelected, itFetches, invLocals>>

\* InvoicesTab.tsx:142-153: generate_invoice_number answers (data is null when
\* it fails; the error member is not read) and generateInvoice sends the insert
IT_RpcAnswer(ok) ==
    /\ UNCHANGED renderVars
    /\ itPending # <<>>
    /\ itPending[1].phase = "rpc"
    /\ IF ok
       THEN /\ invoiceSeq' = invoiceSeq + 1
            /\ itPending' = <<[itPending[1] EXCEPT !.phase = "insert",
                                   !.invoice_number = InvoiceNumber(invoiceSeq + 1)]>>
       ELSE /\ UNCHANGED invoiceSeq
            /\ itPending' = <<[itPending[1] EXCEPT !.phase = "insert",
                                   !.invoice_number = NULL]>>
    /\ UNCHANGED <<dbClients, dbTransactions, dbInvoices, ttVars, ctVars, txLocals,
                   itInvoices, itTransactions, itLoading, itOpen, itSelected, itFetches,
                   itToast, invLocals>>

\* InvoicesTab.tsx:144-165: the store answers the insert and generateInvoice resumes
IT_InsertAnswer(storeUp) ==
    /\ UNCHANGED renderVars
    /\ itPending # <<>>
    /\ itPending[1].phase = "insert"
    /\ LET row == InvoiceData(itPending[1].transaction, itPending[1].invoice_number)
       IN  IF storeUp /\ StoreAcceptsInvoice(row)
           THEN /\ dbInvoices' = Append(dbInvoices, row)
                /\ invLocals' = Append(invLocals, itPending[1].transaction)
                /\ itToast' = "Success"
                /\ itOpen' = FALSE
                /\ itSelected' = 0
                /\ itFetches' = Append(itFetches, SentInvoiceFetch)
           ELSE /\ itToast' = StoreErrorToast
                /\ UNCHANGED <<dbInvoices, invLocals, itOpen, itSelected, itFetches>>
    /\ itPending' = <<>>
    /\ itLoading' = FALSE
    /\ UNCHANGED <<dbClients, dbTransactions, invoiceSeq, ttVars, ctVars, txLocals,
                   itInvoices, itTransactions>>

(***************************************************************************)
(* The two renderers (InvoicesTab.tsx:168-603).  A document is the sequence  *)
(* of its text lines in the order the renderer emits them; a line is the     *)
(* block it belongs to and its text, a sequence of pieces.  Geometry, fonts  *)
(* and colours are left out.  The two dates are formatted by the same call   *)
(* in both renderers and are carried as one piece each.                      *)
(***************************************************************************)
\* index.js:182: original_amount_usd of the stored row, from the form's text
WithOriginalAmountUsd(row, text) ==
    row @@ [original_amount_usd |->
                IF text # <<>> THEN <<ParseFloat(text)>> ELSE <<>>]

\* x rounded to a whole number of hundredths, half away from zero, for x >= 0
Hundredths(x) == (x.n * 200 + x.d) \div (2 * x.d)

TwoDigits(k) == <<Digits[(k \div 10) + 1], Digits[(k % 10) + 1]>>

\* the digits of k in groups of three
RECURSIVE Grouped(_)
Grouped(k) ==
    IF k < 1000 THEN IndexToString(k)
    ELSE Grouped(k \div 1000) \o <<",", Digits[((k % 1000) \div 100) + 1]>>
             \o TwoDigits(k % 100)

\* x.toFixed(2)
ToFixed2(x) ==
    IF IsNaN(x) THEN <<"NaN">>
    ELSE LET h == Hundredths([n |-> Abs(x.n), d |-> x.d])
         IN  (IF x.n < 0 /\ h > 0 THEN <<"-">> ELSE <<>>)
                 \o IndexToString(h \div 100) \o <<".">> \o TwoDigits(h % 100)

\* x.toLocaleString('en-US', {minimumFractionDigits: 2, maximumFractionDigits: 2})
ToLocale2(x) ==
    IF IsNaN(x) THEN <<"NaN">>
    ELSE LET h == Hundredths([n |-> Abs(x.n), d |-> x.d])
         IN  (IF x.n < 0 /\ h > 0 THEN <<"-">> ELSE <<>>)
                 \o Grouped(h \div 100) \o <<".">> \o TwoDigits(h % 100)

\* a nullable string or number is truthy
Truthy(v) == v # NULL /\ v # ""

Line(block, text) == [block |-> block, text |-> text]

\* mutant: the stored payout id is ignored
MutPayoutId(invoice) ==
    LET matching == SelectSeq(invoice.clients.platform_details,
                        LAMBDA p : p.platform_name = invoice.transactions.source_platform)
    IN  IF matching # <<>> /\ Truthy(matching[1].payout_id)
        THEN matching[1].payout_id ELSE "N/A"

\* InvoicesTab.tsx:290-298 and 427-435: the text after "Payout ID: "
PayoutId(invoice) ==
    LET stored   == invoice.transactions.source_platform_payout_id
        matching == SelectSeq(invoice.clients.platform_details,
                        LAMBDA p : p.platform_name = invoice.transactions.source_platform)
        payoutId == IF ~Truthy(stored) /\ invoice.clients.platform_details # <<>>
                    THEN IF matching # <<>> /\ Truthy(matching[1].payout_id)
                         THEN matching[1].payout_id ELSE NULL
                    ELSE stored
    IN  IF Truthy(payoutId) THEN payoutId ELSE "N/A"

\* mutant: the rate is shown for every MMK transaction
MutShowsConversion(invoice) == invoice.transactions.payout_currency = "MMK"

\* InvoicesTab.tsx:305, 363, 460 and 469
ShowsConversion(invoice) ==
    /\ invoice.transactions.payout_currency = "MMK"
    /\ NumLt(FromInt(0), invoice.transactions.exchange_rate_mmk)

\* mutant: the Conversion row multiplies the amount before commission
MutConversionAmount(invoice) ==
    NumMul(invoice.invoice.total_amount, invoice.transactions.exchange_rate_mmk)

\* InvoicesTab.tsx:365 and 470
ConversionAmount(invoice) ==
    NumMul(invoice.invoice.net_amount, invoice.transactions.exchange_rate_mmk)

\* InvoicesTab.tsx:384-386 and 464-466
PayoutDisplay(invoice) ==
    ToLocale2(invoice.transactions.payout_amount)
        \o <<IF invoice.transactions.payout_currency = "MMK" THEN " MMK" ELSE " THB">>

\* a truthy original_amount_usd (InvoicesTab.tsx:326 and 451)
HasOriginalAmount(invoice) ==
    /\ invoice.transactions.original_amount_usd # <<>>
    /\ ~IsNaN(invoice.transactions.original_amount_usd[1])
    /\ invoice.transactions.original_amount_usd[1].n # 0

CreatedAt(invoice) == <<"created_at of invoice ">> \o IndexToString(invoice.id)

TransactionDate(invoice) ==
    <<"transaction_date of transaction ">> \o IndexToString(invoice.invoice.transaction_id)

ContactLines ==
    << Line("metadata", <<"+6691 333 7003">>),
       Line("metadata", <<"https://www.paingthu.com">>),
       Line("metadata", <<"Nakhon Pathom, Thailand">>) >>

\* InvoicesTab.tsx:175-191: four watermarks
PdfWatermark == [i \in 1..4 |-> Line("watermark", <<"paingthu.com">>)]

\* InvoicesTab.tsx:196-223: header band, then the invoice metadata
PdfHead(invoice) ==
    << Line("header", <<"PAING THU">>),
       Line("metadata", <<"INVOICE">>),
       Line("metadata", invoice.invoice.invoice_number),
       Line("metadata", CreatedAt(invoice)) >> \o ContactLines

\* InvoicesTab.tsx:225-263
PdfBillTo(invoice) ==
    << Line("bill-to", <<"BILL TO">>),
       Line("bill-to", invoice.clients.name) >>
    \o (IF Truthy(invoice.clients.phone)
        THEN <<Line("bill-to", <<"Phone: ", invoice.clients.phone>>)>> ELSE <<>>)
    \o (IF invoice.transactions.payment_destination # <<>>
        THEN LET account == invoice.transactions.payment_destination[1]
             IN  <<Line("bill-to", <<account.bank_name, ": ", account.account_number>>)>>
                 \o (IF Truthy(account.account_name)
                     THEN <<Line("bill-to", <<account.account_name>>)>> ELSE <<>>)
        ELSE <<Line("bill-to", <<"Bank Not Specified">>)>>)

\* InvoicesTab.tsx:265-307
PdfDetails(invoice) ==
    << Line("details", <<"TRANSACTION DETAILS">>),
       Line("details", <<"Transaction Date: ">> \o TransactionDate(invoice)) >>
    \o (IF Truthy(invoice.transactions.source_platform)
        THEN << Line("details", <<"Source Platform: ", invoice.transactions.source_platform>>),
                Line("details", <<"Payout ID: ", PayoutId(invoice)>>) >>
        ELSE <<>>)
    \o <<Line("details", <<"Payout Currency: ", invoice.transactions.payout_currency>>)>>
    \o (IF ShowsConversion(invoice)
        THEN <<Line("details", <<"Exchange Rate: 1 THB = ">>
                       \o ToFixed2(invoice.transactions.exchange_rate_mmk) \o <<" MMK">>)>>
        ELSE <<>>)

\* InvoicesTab.tsx:311-375
PdfTable(invoice) ==
    << Line("table", <<"Description">>), Line("table", <<"Amount">>) >>
    \o (IF HasOriginalAmount(invoice)
        THEN << Line("table", <<"Original Amount (USD)">>),
                Line("table", <<"$">> \o ToLocale2(invoice.transactions.original_amount_usd[1])) >>
        ELSE <<>>)
    \o << Line("table", <<"Incoming Amount (THB)">>),
          Line("table", ToLocale2(invoice.invoice.total_amount) \o <<" THB">>),
          Line("table", <<"Commission (">>
                   \o NumToString(invoice.clients.commission_percentage) \o <<"%)">>),
          Line("table", <<"-">> \o ToLocale2(invoice.invoice.commission_amount) \o <<" THB">>),
          Line("table", <<"Net in THB">>),
          Line("table", ToLocale2(invoice.invoice.net_amount) \o <<" THB">>) >>
    \o (IF ShowsConversion(invoice)
        THEN << Line("table", <<"Conversion (">> \o ToLocale2(invoice.invoice.net_amount)
                       \o <<" THB x ">> \o ToFixed2(invoice.transactions.exchange_rate_mmk)
                       \o <<")">>),
                Line("table", ToLocale2(ConversionAmount(invoice)) \o <<" MMK">>) >>
        ELSE <<>>)

\* InvoicesTab.tsx:379-397
PdfFoot(invoice) ==
    << Line("payout", <<"PAYOUT AMOUNT">>),
       Line("payout", PayoutDisplay(invoice)),
       Line("thanks", <<"Thank you for your business!">>) >>

\* InvoicesTab.tsx:168-397: the text downloadPDF draws, in drawing order
PdfLines(invoice) ==
    PdfWatermark \o PdfHead(invoice) \o PdfBillTo(invoice) \o PdfDetails(invoice)
        \o PdfTable(invoice) \o PdfFoot(invoice)

\* tags the browser's parser takes out of a text placed in innerHTML
HtmlTags == {"<b>"}

\* the text of an element whose content is the given pieces
HtmlText(pieces) == SelectSeq(pieces, LAMBDA t : t \notin HtmlTags)

HtmlLine(block, pieces) == Line(block, HtmlText(pieces))

\* InvoicesTab.tsx:483-487: five watermarks
JpegWatermark == [i \in 1..5 |-> HtmlLine("watermark", <<"paingthu.com">>)]

\* InvoicesTab.tsx:437-447 and 499-504: the BILL TO column
JpegBillTo(invoice) ==
    << HtmlLine("bill-to", <<"BILL TO:">>),
       HtmlLine("bill-to", invoice.clients.name) >>
    \o (IF Truthy(invoice.clients.phone)
        THEN <<HtmlLine("bill-to", <<"Phone: ", invoice.clients.phone>>)>> ELSE <<>>)
    \o (IF invoice.transactions.payment_destination # <<>>
        THEN LET account == invoice.transactions.payment_destination[1]
             IN  << HtmlLine("bill-to", <<account.bank_name, ": ", account.account_number>>),
                    HtmlLine("bill-to", IF Truthy(account.account_name)
                                        THEN <<account.account_name>> ELSE <<>>) >>
        ELSE <<HtmlLine("bill-to", <<"Bank Not Specified">>)>>)

\* InvoicesTab.tsx:505-514: the INVOICE column
JpegMetadata(invoice) ==
    << HtmlLine("metadata", <<"INVOICE">>),
       HtmlLine("metadata", invoice.invoice.invoice_number),
       HtmlLine("metadata", CreatedAt(invoice)) >> \o ContactLines

\* InvoicesTab.tsx:421-436, 460-463 and 518-525
JpegDetails(invoice) ==
    << HtmlLine("details", <<"TRANSACTION DETAILS">>),
       HtmlLine("details", <<"Transaction Date: ">> \o TransactionDate(invoice)) >>
    \o (IF Truthy(invoice.transactions.source_platform)
        THEN << HtmlLine("details",
                         <<"Source Platform: ", invoice.transactions.source_platform>>),
                HtmlLine("details", <<"Payout ID: ", PayoutId(invoice)>>) >>
        ELSE <<>>)
    \o <<HtmlLine("details", <<"Payout Currency: ", invoice.transactions.payout_currency>>)>>
    \o (IF ShowsConversion(invoice)
        THEN <<HtmlLine("details", <<"Exchange Rate: 1 THB = ">>
                       \o ToFixed2(invoice.transactions.exchange_rate_mmk) \o <<" MMK">>)>>
        ELSE <<>>)

\* InvoicesTab.tsx:449-458, 468-479 and 527-551
JpegTable(invoice) ==
    << HtmlLine("table", <<"Description">>), HtmlLine("table", <<"Amount">>) >>
    \o (IF HasOriginalAmount(invoice)
        THEN << HtmlLine("table", <<"Original Amount (USD)">>),
                HtmlLine("table",
                         <<"$">> \o ToLocale2(invoice.transactions.original_amount_usd[1])) >>
        ELSE <<>>)
    \o << HtmlLine("table", <<"Incoming Amount (THB)">>),
          HtmlLine("table", ToLocale2(invoice.invoice.total_amount) \o <<" THB">>),
          HtmlLine("table", <<"Commission (">>
                       \o NumToString(invoice.clients.commission_percentage) \o <<"%)">>),
          HtmlLine("table",
                   <<"-">> \o ToLocale2(invoice.invoice.commission_amount) \o <<" THB">>),
          HtmlLine("table", <<"Net in THB">>),
          HtmlLine("table", ToLocale2(invoice.invoice.net_amount) \o <<" THB">>) >>
    \o (IF ShowsConversion(invoice)
        THEN << HtmlLine("table", <<"Conversion (">> \o ToLocale2(invoice.invoice.net_amount)
                       \o <<" THB x ">> \o ToFixed2(invoice.transactions.exchange_rate_mmk)
                       \o <<")">>),
                HtmlLine("table", ToLocale2(ConversionAmount(invoice)) \o <<" MMK">>) >>
        ELSE <<>>)

\* InvoicesTab.tsx:553-562
JpegFoot(invoice) ==
    << HtmlLine("payout", <<"PAYOUT AMOUNT">>),
       HtmlLine("payout", PayoutDisplay(invoice)),
       HtmlLine("thanks", <<"Thank you for your business!">>) >>

\* InvoicesTab.tsx:481-564: the text of the container downloadJPEG builds, in
\* document order
JpegLines(invoice) ==
    JpegWatermark \o <<HtmlLine("header", <<"PAING THU">>)>> \o JpegBillTo(invoice)
        \o JpegMetadata(invoice) \o JpegDetails(invoice) \o JpegTable(invoice)
        \o JpegFoot(invoice)

\* mutant: a rendered invoice is taken off the loaded list
MutLoadedAfterRender(invoices, i) == RemoveAt(invoices, i)

\* InvoicesTab.tsx:168-603: the renderers call no state setter but toast and no
\* method of the record store
LoadedAfterRender(invoices, i) == invoices

\* InvoicesTab.tsx:168-407 (button at 667-674): downloadPDF runs to its end in
\* one step: the file goes to the download sink and the toast is shown
IT_DownloadPDF(i) ==
    /\ i \in 1..Len(itInvoices)
    /\ itRender = <<>>
    /\ Len(itRenderLog) < MaxRenders
    /\ itRenderLog' = Append(itRenderLog,
            [kind |-> "pdf", invoice |-> itInvoices[i].id,
             file |-> <<[name |-> itInvoices[i].invoice.invoice_number \o <<".pdf">>,
                         lines |-> PdfLines(itInvoices[i])]>>,
             message |-> "Success: Invoice PDF downloaded successfully",
             container |-> FALSE])
    /\ itToast' = "Success: Invoice PDF downloaded successfully"
    /\ itInvoices' = LoadedAfterRender(itInvoices, i)
    /\ UNCHANGED <<dbVars, ttVars, ctVars, txLocals, itTransactions, itLoading, itOpen,
                   itSelected, itFetches, itPending, invLocals, itRender>>

\* InvoicesTab.tsx:409-574 (button at 675-682): downloadJPEG builds the
\* container, appends it to the document (566: container is TRUE while it is
\* attached) and awaits html2canvas.  One
\* downloadJPEG runs at a time (itRender = <<>>).
IT_DownloadJPEG(i) ==
    /\ i \in 1..Len(itInvoices)
    /\ itRender = <<>>
    /\ Len(itRenderLog) < MaxRenders
    /\ itRender' = <<[phase |-> "capture", invoice |-> itInvoices[i].id,
                      name |-> itInvoices[i].invoice.invoice_number \o <<".jpg">>,
                      lines |-> JpegLines(itInvoices[i]),
                      container |-> TRUE]>>
    /\ itInvoices' = LoadedAfterRender(itInvoices, i)
    /\ UNCHANGED <<dbVars, ttVars, ctVars, txLocals, itTransactions, itLoading, itOpen,
                   itSelected, itFetches, itPending, itToast, invLocals, itRenderLog>>

\* InvoicesTab.tsx:569-580 and 595-602: html2canvas answers; with a canvas the
\* container is removed (577) and canvas.toBlob is called, without one the
\* catch block shows the error and the function ends: removeChild is inside
\* the try block after the await and there is no finally block
IT_CaptureAnswer(ok) ==
    /\ itRender # <<>>
    /\ itRender[1].phase = "capture"
    /\ IF ok
       THEN /\ itRender' = <<[itRender[1] EXCEPT !.phase = "blob", !.container = FALSE]>>
            /\ UNCHANGED <<itRenderLog, itToast>>
       ELSE /\ itRender' = <<>>
            /\ itRenderLog' = Append(itRenderLog,
                    [kind |-> "jpeg", invoice |-> itRender[1].invoice, file |-> <<>>,
                     message |-> "Error: capture",
                     container |-> itRender[1].container])
            /\ itToast' = "Error: capture"
    /\ UNCHANGED <<dbVars, ttVars, ctVars, txLocals, itInvoices, itTransactions, itLoading,
                   itOpen, itSelected, itFetches, itPending, invLocals>>

\* InvoicesTab.tsx:580-593: the toBlob callback; blob is null when the image
\* cannot be encoded
IT_BlobAnswer(encoded) ==
    /\ itRender # <<>>
    /\ itRender[1].phase = "blob"
    /\ itRender' = <<>>
    /\ IF encoded
       THEN /\ itRenderLog' = Append(itRenderLog,
                    [kind |-> "jpeg", invoice |-> itRender[1].invoice,
                     file |-> <<[name |-> itRender[1].name, lines |-> itRender[1].lines]>>,
                     message |-> "Success: Invoice JPEG downloaded successfully",
                     container |-> itRender[1].container])
            /\ itToast' = "Success: Invoice JPEG downloaded successfully"
       ELSE /\ itRenderLog' = Append(itRenderLog,
                    [kind |-> "jpeg", invoice |-> itRender[1].invoice, file |-> <<>>,
                     message |-> "", container |-> itRender[1].container])
            /\ UNCHANGED itToast
    /\ UNCHANGED <<dbVars, ttVars, ctVars, txLocals, itInvoices, itTransactions, itLoading,
                   itOpen, itSelected, itFetches, itPending, invLocals>>

vars == <<dbClients, dbTransactions, dbInvoices, invoiceSeq, ttClients, ttTransactions,
          ttLoading, ttOpen, ttForm, ttSelPlatforms, ttSelBanks, ttSelCurrency, ttFetches,
          ttPending, ttToast, txLocals, ctClients, ctLoading, ctOpen, ctEditing, ctForm,
          ctBanks, ctPlatforms, ctFetches, ctPending, ctToast, clientWrites, itInvoices,
          itTransactions, itLoading, itOpen, itSelected, itFetches, itPending, itToast,
          invLocals, itRender, itRenderLog>>

\* The record store's content when the application is opened.
InitStore ==
    /\ dbClients = InitialClients
    /\ dbInvoices = <<>>
    /\ invoiceSeq = 0

\* TransactionsTab has mounted and its effect has called fetchData (index.js:86-107).
InitTransactionsTab ==
    /\ ttClients = <<>>
    /\ ttTransactions = {}
    /\ ttLoading = TRUE
    /\ ttOpen = FALSE
    /\ ttForm = EmptyForm
    /\ ttSelPlatforms = <<>>
    /\ ttSelBanks = <<>>
    /\ ttSelCurrency = ""
    /\ ttFetches = <<SentFetch>>
    /\ ttPending = <<>>
    /\ ttToast = ""

\* ClientsTab has mounted and its effect has called fetchClients (ClientsTab.tsx:35-53).
InitClientsTab ==
    /\ ctClients = <<>>
    /\ ctLoading = TRUE
    /\ ctOpen = FALSE
    /\ ctEditing = <<>>
    /\ ctForm = EmptyClientForm
    /\ ctBanks = <<>>
    /\ ctPlatforms = <<>>
    /\ ctFetches = <<SentClientFetch>>
    /\ ctPending = <<>>
    /\ ctToast = ""
    /\ clientWrites = 0

\* ClientsTab is not on screen: nothing of it is in flight
IdleClientsTab ==
    /\ ctClients = <<>>
    /\ ctLoading = FALSE
    /\ ctOpen = FALSE
    /\ ctEditing = <<>>
    /\ ctForm = EmptyClientForm
    /\ ctBanks = <<>>
    /\ ctPlatforms = <<>>
    /\ ctFetches = <<>>
    /\ ctPending = <<>>
    /\ ctToast = ""
    /\ clientWrites = 0

\* InvoicesTab has mounted and its effect has called fetchData (InvoicesTab.tsx:71-81).
InitInvoicesTab ==
    /\ itRender = <<>>
    /\ itRenderLog = <<>>
    /\ itInvoices = <<>>
    /\ itTransactions = <<>>
    /\ itLoading = TRUE
    /\ itOpen = FALSE
    /\ itSelected = 0
    /\ itFetches = <<SentInvoiceFetch>>
    /\ itPending = <<>>
    /\ itToast = ""
    /\ invLocals = <<>>

\* InvoicesTab is not on screen: nothing of it is in flight
IdleInvoicesTab ==
    /\ itRender = <<>>
    /\ itRenderLog = <<>>
    /\ itInvoices = <<>>
    /\ itTransactions = <<>>
    /\ itLoading = FALSE
    /\ itOpen = FALSE
    /\ itSelected = 0
    /\ itFetches = <<>>
    /\ itPending = <<>>
    /\ itToast = ""
    /\ invLocals = <<>>

\* TransactionsTab is not on screen: nothing of it is in flight
IdleTransactionsTab ==
    /\ ttClients = <<>>
    /\ ttTransactions = {}
    /\ ttLoading = FALSE
    /\ ttOpen = FALSE
    /\ ttForm = EmptyForm
    /\ ttSelPlatforms = <<>>
    /\ ttSelBanks = <<>>
    /\ ttSelCurrency = ""
    /\ ttFetches = <<>>
    /\ ttPending = <<>>
    /\ ttToast = ""

NextTransactionsTab ==
    \/ \E i \in 1..Len(ttFetches), ok \in BOOLEAN : TT_FetchServe(i, ok)
    \/ \E i \in 1..Len(ttFetches) : TT_FetchApply(i)
    \/ \E value \in BOOLEAN : TT_SetOpen(value)
    \/ \E value \in ClientIds : TT_SelectClient(value)
    \/ \E value \in IndexOptions(ttSelBanks) : TT_SelectBank(value)
    \/ \E value \in IndexOptions(ttSelPlatforms) \cup {Other} : TT_SelectPlatform(value)
    \/ \E incoming \in IncomingInputs, rate \in RateInputs : TT_SubmitStart(incoming, rate)
    \/ \E storeUp \in BOOLEAN : TT_SubmitFinish(storeUp)

(***************************************************************************)
(* SpecTransactions: the transaction form against a store whose clients do  *)
(* not change.                                                              *)
(***************************************************************************)
InitTransactions ==
    /\ InitStore
    /\ InitTransactionsTab
    /\ IdleClientsTab
    /\ IdleInvoicesTab
    /\ dbTransactions = <<>>
    /\ txLocals = <<>>

SpecTransactions == InitTransactions /\ [][NextTransactionsTab]_vars

(***************************************************************************)
(* SpecInvoices: the invoice dialog and the client form against a store     *)
(* that already holds the transactions the transaction form created.        *)
(***************************************************************************)
\* handleSubmit's locals for the transactions the store starts with: 1000.00
\* THB for each of the two clients
InitialLocals ==
    << SubmitLocals([client_id |-> "c1", source_platform |-> <<"0">>,
                     payment_destination_index |-> <<"0">>],
                    <<"1", "0", "0", "0", ".", "0", "0">>, <<>>,
                    InitialClients["c1"], InitialClients["c1"].bank_account,
                    InitialClients["c1"].platform_details),
       SubmitLocals([client_id |-> "c2", source_platform |-> Other,
                     payment_destination_index |-> <<"0">>],
                    <<"1", "0", "0", "0", ".", "0", "0">>, <<"1", "2", "0", ".", "0", "0">>,
                    InitialClients["c2"], InitialClients["c2"].bank_account,
                    InitialClients["c2"].platform_details) >>

\* commission percentages client c1 has been given since its transaction was
\* created at 10%
RatesSinceCreation == { FromInt(10), FromInt(15), Rat(25, 2) }

\* The store holds the two transactions and no invoice yet.
InitStoreWithTransactions ==
    /\ dbTransactions = [i \in 1..Len(InitialLocals) |-> TransactionData(InitialLocals[i])]
    /\ txLocals = InitialLocals
    /\ dbInvoices = <<>>
    /\ invoiceSeq = 0

InitInvoices ==
    /\ InitStoreWithTransactions
    /\ \E r \in RatesSinceCreation :
           dbClients = [InitialClients EXCEPT !["c1"].commission_percentage = r]
    /\ IdleTransactionsTab
    /\ IdleClientsTab
    /\ InitInvoicesTab

NextInvoicesTab ==
    \/ \E i \in 1..Len(itFetches), ok \in BOOLEAN : IT_FetchServe(i, ok)
    \/ \E i \in 1..Len(itFetches) : IT_FetchApply(i)
    \/ \E value \in BOOLEAN : IT_SetOpen(value)
    \/ \E id \in 1..Len(dbTransactions) : IT_SelectTransaction(id)
    \/ IT_GenerateStart
    \/ \E ok \in BOOLEAN : IT_RpcAnswer(ok)
    \/ \E storeUp \in BOOLEAN : IT_InsertAnswer(storeUp)

SpecInvoices == InitInvoices /\ [][NextInvoicesTab]_vars

(***************************************************************************)
(* SpecRateChange: the invoice dialog while the client form changes the     *)
(* commission percentage of client c1.                                      *)
(***************************************************************************)
InitRateChange ==
    /\ InitStoreWithTransactions
    /\ dbClients = InitialClients
    /\ IdleTransactionsTab
    /\ InitClientsTab
    /\ InitInvoicesTab

NextRateChange ==
    \/ NextInvoicesTab
    \/ \E i \in 1..Len(ctFetches), ok \in BOOLEAN : CT_FetchServe(i, ok)
    \/ \E i \in 1..Len(ctFetches) : CT_FetchApply(i)
    \/ \E id \in {"c1"} : CT_HandleEdit(id)
    \/ \E text \in CommissionInputs : CT_SetCommission(text)
    \/ CT_SubmitStart
    \/ \E outcome \in {"ok", "unauthenticated", "error"} : CT_SubmitFinish(outcome)

SpecRateChange == InitRateChange /\ [][NextRateChange]_vars

(***************************************************************************)
(* SpecSnapshot: the client form edits the bank accounts and the payout      *)
(* currency of clients whose transactions the store holds.                  *)
(***************************************************************************)
InitSnapshot ==
    /\ InitStoreWithTransactions
    /\ dbClients = InitialClients
    /\ IdleTransactionsTab
    /\ InitClientsTab
    /\ IdleInvoicesTab

NextClientsTab ==
    \/ \E i \in 1..Len(ctFetches), ok \in BOOLEAN : CT_FetchServe(i, ok)
    \/ \E i \in 1..Len(ctFetches) : CT_FetchApply(i)
    \/ \E id \in ClientIds : CT_HandleEdit(id)
    \/ CT_Dismiss
    \/ \E value \in {"THB", "MMK"} : CT_SetCurrency(value)
    \/ \E newBank \in {BankC} : CT_AddBankAccount(newBank)
    \/ \E index \in 0..(MaxListLen - 1) : CT_RemoveBankAccount(index)
    \/ CT_SubmitStart
    \/ \E outcome \in {"ok", "unauthenticated", "error"} : CT_SubmitFinish(outcome)

SpecSnapshot == InitSnapshot /\ [][NextClientsTab]_vars

(***************************************************************************)
(* SpecRender: the two download buttons of the invoice table, against a      *)
(* store that holds four invoiced transactions.                              *)
(***************************************************************************)
\* the Facebook entry after a payout id was entered for it
PlatformFId == [platform_name |-> "Facebook", payout_id |-> "FB-9"]

\* handleSubmit's locals for the four transactions
RenderLocals ==
    << InitialLocals[1],
       SubmitLocals([client_id |-> "c1", source_platform |-> <<"1">>,
                     payment_destination_index |-> <<>>],
                    <<"0", ".", "0", "7">>, <<>>,
                    InitialClients["c1"], InitialClients["c1"].bank_account,
                    InitialClients["c1"].platform_details),
       InitialLocals[2],
       SubmitLocals([client_id |-> "c2", source_platform |-> <<>>,
                     payment_destination_index |-> <<>>],
                    <<"1", "0", "0", "0", ".", "0", "0">>, <<"0">>,
                    InitialClients["c2"], InitialClients["c2"].bank_account,
                    InitialClients["c2"].platform_details) >>

\* the Original Amount (USD) box of the four forms
RenderOriginalAmounts ==
    << <<"5", "0", ".", "0", "0">>, <<"0">>, <<"1", "2", "3", "4", ".", "5">>, <<"0">> >>

\* what the client form has made of client c1 since: its name and its platforms
RenderClientEdits ==
    { [name |-> <<"Aye">>, platform_details |-> <<PlatformY, PlatformF>>],
      [name |-> <<"Aye ", "<b>", "Co">>, platform_details |-> <<PlatformY, PlatformFId>>],
      [name |-> <<"Aye">>, platform_details |-> <<PlatformF, PlatformFId>>] }

InitRender ==
    /\ \E e \in RenderClientEdits :
           dbClients = [InitialClients EXCEPT !["c1"].name = e.name,
                                              !["c1"].platform_details = e.platform_details]
    /\ dbTransactions =
           [i \in 1..Len(RenderLocals) |->
               WithOriginalAmountUsd(TransactionData(RenderLocals[i]), RenderOriginalAmounts[i])]
    /\ txLocals = RenderLocals
    /\ invLocals = [i \in 1..Len(RenderLocals) |-> EligibleRow(i)]
    /\ dbInvoices = [i \in 1..Len(RenderLocals) |-> InvoiceData(invLocals[i], InvoiceNumber(i))]
    /\ invoiceSeq = Len(RenderLocals)
    /\ IdleTransactionsTab
    /\ IdleClientsTab
    /\ itRender = <<>>
    /\ itRenderLog = <<>>
    /\ itInvoices = <<>>
    /\ itTransactions = <<>>
    /\ itLoading = TRUE
    /\ itOpen = FALSE
    /\ itSelected = 0
    /\ itFetches = <<SentInvoiceFetch>>
    /\ itPending = <<>>
    /\ itToast = ""

NextRender ==
    \/ \E i \in 1..Len(itFetches), ok \in BOOLEAN : IT_FetchServe(i, ok)
    \/ \E i \in 1..Len(itFetches) : IT_FetchApply(i)
    \/ \E i \in 1..Len(itInvoices) : IT_DownloadPDF(i)
    \/ \E i \in 1..Len(itInvoices) : IT_DownloadJPEG(i)
    \/ \E ok \in BOOLEAN : IT_CaptureAnswer(ok)
    \/ \E encoded \in BOOLEAN : IT_BlobAnswer(encoded)

SpecRender == InitRender /\ [][NextRender]_vars

(***************************************************************************)
(* Claims.  Amounts are compared through integer cross-multiplication:      *)
(* ValueIs(x, n, d) says that x is the number n/d.                          *)
(***************************************************************************)
ValueIs(x, n, d) == x.d > 0 /\ x.n * d = n * x.d

InRange0To100(x) == x.d > 0 /\ x.n >= 0 /\ x.n <= 100 * x.d

StoredIds == 1..Len(dbTransactions)

\* C1: every transaction created by handleSubmit from incoming_amount_thb >= 0 and
\* a commission_percentage in [0,100] has commission = incoming * percentage / 100
\* and net payable = incoming - commission, exactly; 1000.00 at 10% gives
\* commission 100.00 and net 900.00.
C1_CommissionAndNetExact ==
    \A i \in StoredIds :
        LET inc == dbTransactions[i].incoming_amount_thb
            pct == txLocals[i].client.commission_percentage
            com == txLocals[i].commissionAmountThb
            net == txLocals[i].netPayableThb
        IN  (inc.d > 0 /\ inc.n >= 0 /\ InRange0To100(pct)) =>
                /\ ValueIs(com, inc.n * pct.n, inc.d * pct.d * 100)
                /\ ValueIs(net, inc.n * (100 * pct.d - pct.n), inc.d * pct.d * 100)
                /\ (ValueIs(inc, 1000, 1) /\ ValueIs(pct, 10, 1)) =>
                       (com = [n |-> 100, d |-> 1] /\ net = [n |-> 900, d |-> 1])

\* a stored transaction of 1000.00 THB for a client at 10%
C1_Witness ==
    \E i \in StoredIds :
        /\ ValueIs(dbTransactions[i].incoming_amount_thb, 1000, 1)
        /\ ValueIs(txLocals[i].client.commission_percentage, 10, 1)

\* C2: the stored payout_amount is the net payable THB when the payout currency is
\* THB and net payable THB times exchange_rate_mmk when it is MMK; 1000.00 at 10%
\* with rate 120.00 gives 108000.00.
C2_PayoutByCurrency ==
    \A i \in StoredIds :
        LET t   == dbTransactions[i]
            net == txLocals[i].netPayableThb
            r   == t.exchange_rate_mmk
        IN  /\ t.payout_currency = txLocals[i].client.preferred_payout_currency
            /\ t.payout_currency = "THB" => ValueIs(t.payout_amount, net.n, net.d)
            /\ t.payout_currency = "MMK" => ValueIs(t.payout_amount, net.n * r.n, net.d * r.d)
            /\ (t.payout_currency = "MMK" /\ ValueIs(t.incoming_amount_thb, 1000, 1)
                  /\ ValueIs(txLocals[i].client.commission_percentage, 10, 1)
                  /\ ValueIs(r, 120, 1)) => t.payout_amount = [n |-> 108000, d |-> 1]

\* a stored MMK transaction of 1000.00 THB at 10% with rate 120.00
C2_Witness ==
    \E i \in StoredIds :
        /\ dbTransactions[i].payout_currency = "MMK"
        /\ ValueIs(dbTransactions[i].incoming_amount_thb, 1000, 1)
        /\ ValueIs(dbTransactions[i].exchange_rate_mmk, 120, 1)

InvoiceIds == 1..Len(dbInvoices)

InvoicesOf(t) == { k \in InvoiceIds : dbInvoices[k].transaction_id = t }

C4_RateCurrentAtGeneration ==
    [][ /\ (itPending = <<>> /\ itPending' # <<>>) =>
               itPending'[1].transaction.clients.commission_percentage =
                   dbClients[itPending'[1].transaction.clients.id].commission_percentage
        /\ \A i \in 1..Len(dbTransactions) :
               dbTransactions'[i].payout_amount = dbTransactions[i].payout_amount ]_vars

\* C5, as the specification states it: once no fetchData and no generateInvoice
\* is in flight, every invoice refers to one stored transaction, no transaction
\* has more than one invoice, and no invoiced transaction is in the eligible list.
C5_OneInvoicePerTransaction ==
    (itFetches = <<>> /\ itPending = <<>>) =>
        /\ \A k \in InvoiceIds : dbInvoices[k].transaction_id \in 1..Len(dbTransactions)
        /\ \A t \in 1..Len(dbTransactions) : Cardinality(InvoicesOf(t)) <= 1
        /\ \A t \in DOMAIN itTransactions : InvoicesOf(t) = {}

\* C6, as the specification states it: a generateInvoice whose number allocation
\* returned no number sends no insert, and no stored invoice lacks its number.
C6_NoInsertWithoutNumber ==
    /\ \A k \in InvoiceIds : dbInvoices[k].invoice_number # NULL
    /\ (itPending # <<>> /\ itPending[1].phase = "insert") =>
           itPending[1].invoice_number # NULL

\* C7: a stored transaction keeps the payment_destination and the payout_currency
\* it was created with, whatever the client form writes to its client afterwards.
C7_SnapshotFrozen ==
    \A i \in StoredIds :
        /\ dbTransactions[i].payment_destination = txLocals[i].paymentDestination
        /\ dbTransactions[i].payout_currency = txLocals[i].payoutCurrency

\* the client of a stored transaction no longer has the bank account the
\* transaction was paid to, and is now paid in the other currency
C7_Witness ==
    \E i \in StoredIds :
        LET c == dbClients[dbTransactions[i].client_id]
        IN  /\ dbTransactions[i].payment_destination = <<BankA>>
            /\ \A b \in 1..Len(c.bank_account) : c.bank_account[b] # BankA
            /\ dbTransactions[i].payout_currency = "THB"
            /\ c.preferred_payout_currency = "MMK"

\* C8: a submit whose form client id is not among the loaded clients shows
\* "Client not found", suspends on no insert and leaves the stored transactions
\* (and the history of computed amounts) unchanged.
C8_ClientNotFoundAborts ==
    [][ (/\ ttForm.client_id \notin DOMAIN ttClients
         /\ \E incoming \in IncomingInputs, rate \in RateInputs : TT_SubmitStart(incoming, rate))
        => (/\ ttToast' = "Error: Client not found"
            /\ ttPending' = <<>>
            /\ ~ttLoading'
            /\ dbTransactions' = dbTransactions
            /\ txLocals' = txLocals) ]_vars

\* the error has been shown and nothing was stored or sent
C8_Witness ==
    /\ ttToast = "Error: Client not found"
    /\ ttPending = <<>>
    /\ dbTransactions = <<>>

\* C9: with a bank-account index supplied the stored payment_destination is the
\* verbatim copy of the entry at that index of the bank accounts the form holds
\* for the selected client; with no index it is absent.
C9_PaymentDestinationCopied ==
    \A i \in StoredIds :
        LET idx   == txLocals[i].form.payment_destination_index
            banks == txLocals[i].banks
            dest  == dbTransactions[i].payment_destination
        IN  /\ idx = <<>> => dest = <<>>
            /\ idx # <<>> =>
                   \E k \in 1..Len(banks) :
                       /\ idx = IndexToString(k - 1)
                       /\ dest = <<banks[k]>>

\* a stored transaction whose destination is the second account of its client
C9_Witness ==
    \E i \in StoredIds :
        /\ txLocals[i].form.payment_destination_index = <<"1">>
        /\ dbTransactions[i].payment_destination = <<BankB>>

\* C10: the source platform is resolved in exactly three ways: a platform index
\* gives that entry's platform_name and its payout_id (absent when it has none);
\* "Other" gives "Other" with the payout id absent; no selection gives both absent.
C10_SourcePlatformResolved ==
    \A i \in StoredIds :
        LET sel   == txLocals[i].form.source_platform
            plats == txLocals[i].platforms
            t     == dbTransactions[i]
        IN  /\ sel = <<>> =>
                   t.source_platform = NULL /\ t.source_platform_payout_id = NULL
            /\ sel = Other =>
                   t.source_platform = "Other" /\ t.source_platform_payout_id = NULL
            /\ (sel # <<>> /\ sel # Other) =>
                   \E k \in 1..Len(plats) :
                       /\ sel = IndexToString(k - 1)
                       /\ t.source_platform = plats[k].platform_name
                       /\ plats[k].payout_id # "" =>
                              t.source_platform_payout_id = plats[k].payout_id
                       /\ plats[k].payout_id = "" => t.source_platform_payout_id = NULL

\* a stored transaction resolved from an index whose entry has no payout id
C10_Witness ==
    \E i \in StoredIds :
        /\ txLocals[i].form.source_platform = <<"1">>
        /\ dbTransactions[i].source_platform = "Facebook"
        /\ dbTransactions[i].source_platform_payout_id = NULL

Thousand == <<"1", "0", "0", "0", ".", "0", "0">>

\* C11 (amended): a transaction for an MMK client submitted with exchange rate 0
\* is stored, with exchange_rate_mmk = 0 and payout_amount = 0; the form of an
\* MMK client is not submitted with the Exchange Rate box empty, and where
\* handleSubmit does read an empty box it reads it as 0.
C11_ZeroRateStored ==
    \A i \in StoredIds :
        LET l == txLocals[i]
            t == dbTransactions[i]
        IN  /\ (l.payoutCurrency = "MMK" /\ ~IsNaN(t.incoming_amount_thb)) =>
                   /\ l.rate # <<>>
                   /\ ParseFloat(l.rate).n = 0 =>
                          (ValueIs(t.exchange_rate_mmk, 0, 1) /\ ValueIs(t.payout_amount, 0, 1))
            /\ l.rate = <<>> => ValueIs(t.exchange_rate_mmk, 0, 1)

\* 1000.00 THB for the MMK client at rate 0 is stored with payout 0
C11_Witness ==
    \E i \in StoredIds :
        /\ txLocals[i].payoutCurrency = "MMK"
        /\ txLocals[i].rate = <<"0">>
        /\ ValueIs(dbTransactions[i].incoming_amount_thb, 1000, 1)
        /\ ValueIs(dbTransactions[i].exchange_rate_mmk, 0, 1)
        /\ ValueIs(dbTransactions[i].payout_amount, 0, 1)

\* C11, as the specification states it: with an MMK client selected the form can
\* also be submitted with the Exchange Rate box left empty.
C11_EmptyRateSubmits ==
    (/\ ttOpen /\ ~ttLoading /\ ttPending = <<>>
     /\ Len(dbTransactions) < MaxTransactions
     /\ ttSelCurrency = "MMK"
     /\ FindClient(ttClients, ttForm.client_id) # <<>>)
        => ENABLED TT_SubmitStart(Thousand, <<>>)

\* index.js:364: the form's submit button
TransactionSubmitEnabled == ttOpen /\ ~ttLoading

\* ClientsTab.tsx:332: the form's submit button
ClientSubmitEnabled == ctOpen /\ ~ctLoading

\* InvoicesTab.tsx:713-719: the dialog's Generate Invoice button
GenerateEnabled == itOpen /\ itSelected # 0 /\ ~itLoading

\* C12, as the specification states it: while a create-transaction, save-client
\* or generate-invoice operation is in flight, the button that starts another
\* one is disabled, also after an earlier unawaited refresh has completed.
C12_OneRequestAtATime ==
    /\ ttPending # <<>> => ~TransactionSubmitEnabled
    /\ ctPending # <<>> => ~ClientSubmitEnabled
    /\ itPending # <<>> => ~GenerateEnabled

(***************************************************************************)
(* SpecRenderRates: the two download buttons, against a store whose four     *)
(* invoices were generated at 10% and whose client c1 has been given another *)
(* commission percentage by the client form since.                           *)
(***************************************************************************)
InitRenderRates ==
    /\ \E r \in RatesSinceCreation :
           dbClients = [InitialClients EXCEPT !["c1"].commission_percentage = r]
    /\ dbTransactions =
           [i \in 1..Len(RenderLocals) |->
               WithOriginalAmountUsd(TransactionData(RenderLocals[i]), RenderOriginalAmounts[i])]
    /\ txLocals = RenderLocals
    /\ invLocals =
           [i \in 1..Len(RenderLocals) |->
               [EligibleRow(i) EXCEPT !.clients.commission_percentage =
                   InitialClients[dbTransactions[i].client_id].commission_percentage]]
    /\ dbInvoices = [i \in 1..Len(RenderLocals) |-> InvoiceData(invLocals[i], InvoiceNumber(i))]
    /\ invoiceSeq = Len(RenderLocals)
    /\ IdleTransactionsTab
    /\ IdleClientsTab
    /\ itRender = <<>>
    /\ itRenderLog = <<>>
    /\ itInvoices = <<>>
    /\ itTransactions = <<>>
    /\ itLoading = TRUE
    /\ itOpen = FALSE
    /\ itSelected = 0
    /\ itFetches = <<SentInvoiceFetch>>
    /\ itPending = <<>>
    /\ itToast = ""

SpecRenderRates == InitRenderRates /\ [][NextRender]_vars

(***************************************************************************)
(* SpecCreate: the three forms that write to the record store, one tab on   *)
(* screen at a time.  Each tab is a component with its own state; the tab   *)
(* on screen is the one that has mounted, and the other two stay as they    *)
(* are.                                                                     *)
(***************************************************************************)
InitClientForm ==
    /\ InitStore
    /\ dbTransactions = <<>>
    /\ txLocals = <<>>
    /\ IdleTransactionsTab
    /\ InitClientsTab
    /\ IdleInvoicesTab

InitCreate ==
    \/ InitTransactions
    \/ InitInvoices
    \/ InitClientForm

NextClientForm ==
    \/ \E i \in 1..Len(ctFetches), ok \in BOOLEAN : CT_FetchServe(i, ok)
    \/ \E i \in 1..Len(ctFetches) : CT_FetchApply(i)
    \/ CT_OpenAdd
    \/ \E id \in ClientIds : CT_HandleEdit(id)
    \/ CT_Dismiss
    \/ \E text \in CommissionBoxInputs : CT_SetCommission(text)
    \/ CT_SubmitStart
    \/ \E outcome \in {"ok", "unauthenticated", "error"} : CT_SubmitFinish(outcome)

NextCreate ==
    \/ IdleClientsTab /\ IdleInvoicesTab /\ NextTransactionsTab
    \/ IdleTransactionsTab /\ IdleClientsTab /\ NextInvoicesTab
    \/ IdleTransactionsTab /\ IdleInvoicesTab /\ NextClientForm

SpecCreate == InitCreate /\ [][NextCreate]_vars

(***************************************************************************)
(* SpecClientLists: the edit form of a client, with bank accounts and        *)
(* platforms added to and removed from the form's two lists before saving.   *)
(***************************************************************************)
NextClientLists ==
    \/ \E i \in 1..Len(ctFetches), ok \in BOOLEAN : CT_FetchServe(i, ok)
    \/ \E i \in 1..Len(ctFetches) : CT_FetchApply(i)
    \/ \E id \in ClientIds : CT_HandleEdit(id)
    \/ \E newBank \in {BankC} : CT_AddBankAccount(newBank)
    \/ \E index \in 0..(MaxListLen - 1) : CT_RemoveBankAccount(index)
    \/ \E newPlatform \in {PlatformFId} : CT_AddPlatformDetail(newPlatform)
    \/ \E index \in 0..(MaxListLen - 1) : CT_RemovePlatformDetail(index)
    \/ CT_SubmitStart
    \/ \E outcome \in {"ok", "error"} : CT_SubmitFinish(outcome)

SpecClientLists == InitClientForm /\ [][NextClientLists]_vars

\* the lines of a document that show a text
Content(lines) == { lines[k] : k \in { j \in 1..Len(lines) : lines[j].text # <<>> } }

\* the files the renderers have produced
RenderedFiles == { k \in 1..Len(itRenderLog) : itRenderLog[k].file # <<>> }

\* the texts of the lines of a file that begin with the given caption
LinesWith(k, caption) ==
    LET lines == itRenderLog[k].file[1].lines
    IN  { lines[j].text : j \in { n \in 1..Len(lines) :
                                    lines[n].text # <<>> /\ lines[n].text[1] = caption } }

\* C13, as the specification states it: for every loaded invoice the two
\* renderers emit the same lines of text, whatever their order and repetition.
C13_SameContent ==
    \A i \in 1..Len(itInvoices) :
        Content(PdfLines(itInvoices[i])) = Content(JpegLines(itInvoices[i]))

\* C14: a file of either renderer shows "Source Platform" and "Payout ID" exactly
\* when the transaction has a source_platform, and the Payout ID is the
\* transaction's stored payout id if it has one, else the payout id of the
\* client's first platform entry of that name if it has one, else "N/A".
C14_PayoutIdResolved ==
    \A k \in RenderedFiles :
        LET inv      == dbInvoices[itRenderLog[k].invoice]
            t        == dbTransactions[inv.transaction_id]
            entries  == dbClients[inv.client_id].platform_details
            named    == { n \in 1..Len(entries) : entries[n].platform_name = t.source_platform }
            first    == CHOOSE n \in named : \A m \in named : n <= m
            expected == IF t.source_platform_payout_id \notin {NULL, ""}
                        THEN t.source_platform_payout_id
                        ELSE IF named # {} /\ entries[first].payout_id \notin {NULL, ""}
                             THEN entries[first].payout_id
                             ELSE "N/A"
        IN  IF t.source_platform \notin {NULL, ""}
            THEN /\ LinesWith(k, "Source Platform: ") = {<<"Source Platform: ", t.source_platform>>}
                 /\ LinesWith(k, "Payout ID: ") = {<<"Payout ID: ", expected>>}
            ELSE /\ LinesWith(k, "Source Platform: ") = {}
                 /\ LinesWith(k, "Payout ID: ") = {}

\* both renderers have shown the client's FB-9 for the Facebook transaction that
\* stored no payout id
C14_Witness ==
    \E j, k \in RenderedFiles :
        /\ itRenderLog[j].kind = "pdf" /\ itRenderLog[k].kind = "jpeg"
        /\ itRenderLog[j].invoice = 2 /\ itRenderLog[k].invoice = 2
        /\ dbTransactions[2].source_platform_payout_id = NULL
        /\ LinesWith(j, "Payout ID: ") = {<<"Payout ID: ", "FB-9">>}
        /\ LinesWith(k, "Payout ID: ") = {<<"Payout ID: ", "FB-9">>}

\* C15: a file of either renderer shows the exchange-rate line and the Conversion
\* row exactly when payout_currency is MMK and exchange_rate_mmk > 0, and the
\* Conversion row's amount is invoice.net_amount * exchange_rate_mmk.
C15_ConversionShown ==
    \A k \in RenderedFiles :
        LET inv   == dbInvoices[itRenderLog[k].invoice]
            t     == dbTransactions[inv.transaction_id]
            lines == itRenderLog[k].file[1].lines
            rows  == { n \in 1..Len(lines) :
                         lines[n].text # <<>> /\ lines[n].text[1] = "Conversion (" }
            shown == t.payout_currency = "MMK" /\ t.exchange_rate_mmk.d > 0
                         /\ t.exchange_rate_mmk.n > 0
            prod  == [n |-> inv.net_amount.n * t.exchange_rate_mmk.n,
                      d |-> inv.net_amount.d * t.exchange_rate_mmk.d]
        IN  IF shown
            THEN /\ Cardinality(LinesWith(k, "Exchange Rate: 1 THB = ")) = 1
                 /\ Cardinality(rows) = 1
                 /\ \A n \in rows :
                        /\ n < Len(lines)
                        /\ lines[n + 1].text = ToLocale2(prod) \o <<" MMK">>
            ELSE /\ LinesWith(k, "Exchange Rate: 1 THB = ") = {}
                 /\ rows = {}

\* an MMK invoice at rate 120.00 rendered with its Conversion row of 108,000.00,
\* and the MMK invoice at rate 0 rendered without one
C15_Witness ==
    \E j, k \in RenderedFiles :
        /\ itRenderLog[j].invoice = 3 /\ itRenderLog[k].invoice = 4
        /\ \E n \in 1..Len(itRenderLog[j].file[1].lines) :
               itRenderLog[j].file[1].lines[n].text =
                   <<"1", "0", "8", ",", "0", "0", "0", ".", "0", "0", " MMK">>
        /\ LinesWith(j, "Conversion (") # {}
        /\ LinesWith(k, "Conversion (") = {}
        /\ dbTransactions[4].payout_currency = "MMK"

BlockRank(block) ==
    CASE block = "watermark" -> 0
      [] block = "header"    -> 1
      [] block = "metadata"  -> 2
      [] block = "bill-to"   -> 3
      [] block = "details"   -> 4
      [] block = "table"     -> 5
      [] block = "payout"    -> 6
      [] block = "thanks"    -> 7

\* C16, as the specification states it: in every file of either renderer the
\* lines come in the order watermark, header band, invoice metadata, bill-to
\* block, transaction details, line-item table, payout band, thank-you line.
C16_FixedOrder ==
    \A k \in RenderedFiles :
        LET lines == itRenderLog[k].file[1].lines
        IN  \A n \in 1..(Len(lines) - 1) :
                BlockRank(lines[n].block) <= BlockRank(lines[n + 1].block)

\* C17: a step of downloadPDF or downloadJPEG, successful or not, changes no
\* stored client, transaction or invoice and neither loaded list.
C17_RenderChangesNothing ==
    [][ (itRenderLog' # itRenderLog \/ itRender' # itRender) =>
            /\ dbClients' = dbClients
            /\ dbTransactions' = dbTransactions
            /\ dbInvoices' = dbInvoices
            /\ invoiceSeq' = invoiceSeq
            /\ itInvoices' = itInvoices
            /\ itTransactions' = itTransactions ]_vars

\* the same invoice rendered twice, once without a file and once with one
C17_Witness ==
    /\ Len(itRenderLog) = 2
    /\ itRenderLog[1].invoice = itRenderLog[2].invoice
    /\ itRenderLog[1].file = <<>>
    /\ itRenderLog[2].file # <<>>
    /\ Len(itInvoices) = Len(dbInvoices)

\* C18, as the specification states it: a downloadJPEG that produced no file
\* showed an error message, and one that showed the success message produced a
\* file.
C18_RenderFailureReported ==
    \A k \in 1..Len(itRenderLog) :
        itRenderLog[k].kind = "jpeg" =>
            /\ itRenderLog[k].file = <<>> =>
                   itRenderLog[k].message \notin
                       {"", "Success: Invoice JPEG downloaded successfully"}
            /\ itRenderLog[k].message = "Success: Invoice JPEG downloaded successfully" =>
                   itRenderLog[k].file # <<>>

\* C19: the step that ends a create operation (the transaction insert, the
\* invoice insert, the client insert or update) either stored its one record
\* and reported success, or stored nothing and reported the failure; in both
\* cases the operation is over: no second write is sent.
C19_StoreErrorSurfaced ==
    [][ /\ (ttPending # <<>> /\ ttPending' # ttPending) =>
               /\ ttPending' = <<>>
               /\ \/ /\ Len(dbTransactions') = Len(dbTransactions) + 1
                     /\ ttToast' = "Success"
                  \/ /\ UNCHANGED dbVars
                     /\ ttToast' = "Error: store"
        /\ (itPending # <<>> /\ itPending[1].phase = "insert" /\ itPending' # itPending) =>
               /\ itPending' = <<>>
               /\ \/ /\ Len(dbInvoices') = Len(dbInvoices) + 1
                     /\ itToast' = "Success"
                  \/ /\ UNCHANGED dbVars
                     /\ itToast' = "Error: store"
        /\ (ctPending # <<>> /\ ctPending' # ctPending) =>
               /\ ctPending' = <<>>
               /\ \/ /\ clientWrites' = clientWrites + 1
                     /\ ctToast' = "Success"
                  \/ /\ UNCHANGED <<dbVars, clientWrites>>
                     /\ ctToast' \in {"Error: store", "Error: Not authenticated"} ]_vars

\* a transaction insert the store refused: the failure is on screen, the form is
\* still open, nothing is in flight and the store holds no transaction
C19_Witness ==
    /\ ttToast = "Error: store"
    /\ ttOpen
    /\ ttPending = <<>>
    /\ ~ttLoading
    /\ ttFetches = <<>>
    /\ dbTransactions = <<>>

\* C20: every stored client has commission_percentage in [0, 100], and while
\* the Commission % box holds no number or one outside [0, 100] the form does
\* not submit: no write is started.
C20_CommissionInRange ==
    /\ \A id \in DOMAIN dbClients : InRange0To100(dbClients[id].commission_percentage)
    /\ LET x == ParseFloat(ctForm.commission_percentage)
       IN  (IsNaN(x) \/ x.n < 0 \/ x.n > 100 * x.d) => ~ENABLED CT_SubmitStart
    /\ ctPending # <<>> =>
           InRange0To100(ParseFloat(ctPending[1].form.commission_percentage))

\* the edit form of client c1 holds 150 with nothing in flight, and the store
\* still has the client's 10 percent
C20_Witness ==
    /\ ctOpen
    /\ ~ctLoading
    /\ ctPending = <<>>
    /\ ctEditing = <<"c1">>
    /\ ctForm.commission_percentage = <<"1", "5", "0">>
    /\ dbClients = InitialClients

\* C21: every stored transaction has a numeric incoming_amount_thb >= 0, the
\* insert in flight carries one, and the form does not submit a negative or
\* an empty Incoming Amount.
C21_IncomingNonNegative ==
    /\ \A i \in StoredIds :
           /\ ~IsNaN(dbTransactions[i].incoming_amount_thb)
           /\ dbTransactions[i].incoming_amount_thb.n >= 0
    /\ ttPending # <<>> =>
           /\ ~IsNaN(ttPending[1].incomingAmountThb)
           /\ ttPending[1].incomingAmountThb.n >= 0
    /\ \A rate \in RateInputs :
           /\ ~ENABLED TT_SubmitStart(<<"-", "5">>, rate)
           /\ ~ENABLED TT_SubmitStart(<<>>, rate)

\* a transaction of 0.07 THB is stored
C21_Witness ==
    /\ Len(dbTransactions) = 1
    /\ ValueIs(dbTransactions[1].incoming_amount_thb, 7, 100)
    /\ ttToast = "Success"

\* C22: every stored invoice carries a number the allocator handed out, and no
\* two stored invoices carry the same number.
C22_InvoiceNumberUnique ==
    /\ \A i \in InvoiceIds :
           \E k \in 1..invoiceSeq : dbInvoices[i].invoice_number = InvoiceNumber(k)
    /\ \A i, j \in InvoiceIds :
           i # j => dbInvoices[i].invoice_number # dbInvoices[j].invoice_number
    /\ Len(dbInvoices) <= invoiceSeq

\* two invoices are stored, numbered INV-1 and INV-2
C22_Witness ==
    /\ Len(dbInvoices) = 2
    /\ dbInvoices[1].invoice_number = <<"I", "N", "V", "-", "1">>
    /\ dbInvoices[2].invoice_number = <<"I", "N", "V", "-", "2">>
    /\ itPending = <<>>

\* C23: handleSubmit takes the two lists the form holds when it is submitted,
\* and a successful save of an edited client leaves that client's stored
\* bank_account and platform_details equal to those lists, in the form's
\* order, whatever the store held before; no other client changes.
C23_ListsReplacedWholesale ==
    [][ /\ (ctPending = <<>> /\ ctPending' # <<>>) =>
               /\ ctPending'[1].banks = ctBanks
               /\ ctPending'[1].platforms = ctPlatforms
        /\ (/\ ctPending # <<>>
            /\ ctPending[1].editing # <<>>
            /\ clientWrites' = clientWrites + 1) =>
               LET id == ctPending[1].editing[1]
               IN  /\ dbClients'[id].bank_account = ctPending[1].banks
                   /\ dbClients'[id].platform_details = ctPending[1].platforms
                   /\ \A other \in DOMAIN dbClients \ {id} :
                          dbClients'[other] = dbClients[other] ]_vars

\* client c1, stored with KBank, SCB and YouTube, Facebook, was saved from a
\* form in which the first entry of each list was removed and a new one added
C23_Witness ==
    /\ clientWrites = 1
    /\ ctPending = <<>>
    /\ dbClients["c1"].bank_account = <<BankB, BankC>>
    /\ dbClients["c1"].platform_details = <<PlatformF, PlatformFId>>

\* C24, as the specification states it: with no fetchData and no
\* generateInvoice in flight, and no failed fetch on screen, the eligible list
\* holds exactly the stored transactions that have no invoice.
C24_EligibleListCurrent ==
    (itFetches = <<>> /\ itPending = <<>> /\ itToast # "Error: fetch") =>
        DOMAIN itTransactions = { t \in 1..Len(dbTransactions) : InvoicesOf(t) = {} }

\* C25, as the specification states it: in every file of either renderer the
\* percentage P of the "Commission (P%)" label satisfies
\* total_amount * P / 100 = commission_amount for the invoice shown.
C25_LabelMatchesAmount ==
    \A k \in RenderedFiles :
        LET inv == dbInvoices[itRenderLog[k].invoice]
        IN  /\ LinesWith(k, "Commission (") # {}
            /\ \A text \in LinesWith(k, "Commission (") :
                   \E P \in RatesSinceCreation :
                       /\ text = <<"Commission (">> \o NumToString(P) \o <<"%)">>
                       /\ inv.total_amount.n * P.n * inv.commission_amount.d
                              = inv.commission_amount.n * 100 * inv.total_amount.d * P.d

\* C26: a stored transaction's payment_destination is an entry of the
\* bank_account list, and its source platform (unless it is the literal
\* "Other") the name of an entry of the platform_details list, of the client
\* its client_id names; and in the form the two lists offered are those of the
\* selected client and a chosen index lies within them.
C26_SelectionsBelongToClient ==
    /\ \A i \in StoredIds :
           LET t == dbTransactions[i]
               c == dbClients[t.client_id]
           IN  /\ t.payment_destination # <<>> =>
                      \E k \in 1..Len(c.bank_account) :
                          c.bank_account[k] = t.payment_destination[1]
               /\ t.source_platform \notin {NULL, "Other"} =>
                      \E k \in 1..Len(c.platform_details) :
                          /\ c.platform_details[k].platform_name = t.source_platform
                          /\ t.source_platform_payout_id \in
                                 {NULL, c.platform_details[k].payout_id}
    /\ ttForm.client_id # "" =>
           /\ ttSelBanks = dbClients[ttForm.client_id].bank_account
           /\ ttSelPlatforms = dbClients[ttForm.client_id].platform_details
           /\ ttForm.payment_destination_index \in {<<>>} \cup IndexOptions(ttSelBanks)
           /\ ttForm.source_platform \in {<<>>, Other} \cup IndexOptions(ttSelPlatforms)

\* a transaction of client c2 is stored with c2's only bank account, and one
\* of client c1 with c1's second account and first platform
C26_Witness ==
    \E i \in StoredIds :
        \/ /\ dbTransactions[i].client_id = "c2"
           /\ dbTransactions[i].payment_destination = <<InitialClients["c2"].bank_account[1]>>
           /\ dbTransactions[i].source_platform = "Other"
        \/ /\ dbTransactions[i].client_id = "c1"
           /\ dbTransactions[i].payment_destination = <<BankB>>
           /\ dbTransactions[i].source_platform = "YouTube"

\* the text of the line that follows the line with the given text in a file
LineAfter(k, caption) ==
    LET lines == itRenderLog[k].file[1].lines
    IN  { lines[n + 1].text : n \in { m \in 1..(Len(lines) - 1) :
                                        lines[m].text # <<>> /\ lines[m].text[1] = caption } }

\* C27: for an invoice generated at the commission percentage its transaction
\* was created with, net_amount equals the transaction's net payable THB; a
\* file of a THB invoice shows that amount in the payout band, and a file of an
\* MMK invoice with a rate > 0 shows in its Conversion row the amount of its
\* payout band.
C27_AmountsAgree ==
    /\ \A i \in InvoiceIds :
           LET inv == dbInvoices[i]
               l   == txLocals[inv.transaction_id]
           IN  (invLocals[i].clients.commission_percentage = l.client.commission_percentage
                    /\ ValueIs(dbTransactions[inv.transaction_id].fees, 0, 1)) =>
                   inv.net_amount.n * l.netPayableThb.d = l.netPayableThb.n * inv.net_amount.d
    /\ \A k \in RenderedFiles :
           LET inv == dbInvoices[itRenderLog[k].invoice]
               t   == dbTransactions[inv.transaction_id]
               l   == txLocals[inv.transaction_id]
           IN  invLocals[itRenderLog[k].invoice].clients.commission_percentage
                   = l.client.commission_percentage =>
                   /\ Cardinality(LineAfter(k, "PAYOUT AMOUNT")) = 1
                   /\ t.payout_currency = "THB" =>
                          LineAfter(k, "PAYOUT AMOUNT") = {ToLocale2(l.netPayableThb) \o <<" THB">>}
                   /\ (t.payout_currency = "MMK" /\ NumLt(FromInt(0), t.exchange_rate_mmk)) =>
                          LineAfter(k, "Conversion (") = LineAfter(k, "PAYOUT AMOUNT")

\* a THB invoice rendered with 900.00 THB in its payout band and an MMK invoice
\* rendered with 108,000.00 MMK in its Conversion row and its payout band
C27_Witness ==
    \E j, k \in RenderedFiles :
        /\ itRenderLog[j].invoice = 1 /\ itRenderLog[k].invoice = 3
        /\ LineAfter(j, "PAYOUT AMOUNT") = {<<"9", "0", "0", ".", "0", "0", " THB">>}
        /\ LineAfter(k, "PAYOUT AMOUNT") =
               {<<"1", "0", "8", ",", "0", "0", "0", ".", "0", "0", " MMK">>}
        /\ LineAfter(k, "Conversion (") = LineAfter(k, "PAYOUT AMOUNT")

\* C28: without a selection generateInvoice does nothing; a call is started
\* only for a selection found in the eligible list and carries that row; the
\* allocator is called only by a started call, and an invoice is stored only
\* by a call that has passed the allocator; a selection that is not in the list
\* is answered with "Transaction not found" and nothing else changes.
C28_NotFoundStopsEarly ==
    [][ /\ itSelected = 0 => ~ENABLED IT_GenerateStart
        /\ (itPending = <<>> /\ itPending' # <<>>) =>
               /\ itSelected \in DOMAIN itTransactions
               /\ itPending'[1].transaction = itTransactions[itSelected]
               /\ itPending'[1].phase = "rpc"
               /\ UNCHANGED dbVars
        /\ invoiceSeq' # invoiceSeq =>
               itPending # <<>> /\ itPending[1].phase = "rpc"
        /\ dbInvoices' # dbInvoices =>
               itPending # <<>> /\ itPending[1].phase = "insert"
        /\ (itToast' = "Error: Transaction not found" /\ itToast' # itToast) =>
               /\ itSelected # 0
               /\ itSelected \notin DOMAIN itTransactions
               /\ itPending = <<>> /\ itPending' = <<>>
               /\ UNCHANGED dbVars ]_vars

\* the selected transaction left the list while the dialog was open, and
\* Generate Invoice was answered with "Transaction not found"
C28_Witness ==
    /\ itToast = "Error: Transaction not found"
    /\ itSelected # 0
    /\ itSelected \notin DOMAIN itTransactions
    /\ itPending = <<>>
    /\ ~itLoading

\* C29, as the specification states it: when a downloadJPEG has finished, with
\* or without a file, its container is no longer attached to the document.
C29_ContainerRemoved ==
    \A k \in 1..Len(itRenderLog) :
        itRenderLog[k].kind = "jpeg" => ~itRenderLog[k].container

\* C30: the client the form writes to is decided by the button that opened it.
\* editingClient becomes a client only by handleEdit of that client, and the
\* Add Client button empties it together with the two lists, whatever an earlier
\* dialog left behind; handleSubmit takes its target from editingClient; a
\* submit with a target rewrites that client's row alone, and a submit without
\* one adds a row and leaves every stored client as it was.
C30_UpdateOnlyThroughEdit ==
    [][ /\ CT_OpenAdd => ctEditing' = <<>> /\ ctBanks' = <<>> /\ ctPlatforms' = <<>>
        /\ (ctEditing' # ctEditing /\ ctEditing' # <<>>) =>
               \E id \in ClientIds : CT_HandleEdit(id) /\ ctEditing' = <<id>>
        /\ (ctPending = <<>> /\ ctPending' # <<>>) => ctPending'[1].editing = ctEditing
        /\ dbClients' # dbClients =>
               /\ ctPending # <<>>
               /\ IF ctPending[1].editing = <<>>
                  THEN /\ DOMAIN dbClients' = DOMAIN dbClients \cup {FreshClientId}
                       /\ FreshClientId \notin DOMAIN dbClients
                       /\ \A id \in DOMAIN dbClients : dbClients'[id] = dbClients[id]
                  ELSE /\ DOMAIN dbClients' = DOMAIN dbClients
                       /\ \A id \in DOMAIN dbClients \ {ctPending[1].editing[1]} :
                              dbClients'[id] = dbClients[id]
      ]_vars

\* a form opened by Add Client was saved: the store holds a new client with
\* empty lists next to the unchanged earlier ones
C30_Witness ==
    /\ FreshClientId \in DOMAIN dbClients
    /\ dbClients[FreshClientId].bank_account = <<>>
    /\ dbClients[FreshClientId].platform_details = <<>>
    /\ \A id \in ClientIds : dbClients[id] = InitialClients[id]
    /\ ctToast = "Success"

====
